---- MODULE Spec2Model ----
(***************************************************************************)
(* Point-in-time rating and market-edge engine of sport_edge.              *)
(*                                                                         *)
(* Numbers.  The program computes on Python floats; the model computes on  *)
(* integers in fixed units, so every comparison the code makes is made on  *)
(* exact values:                                                           *)
(*   - a probability is a whole number of 1/PScale;                        *)
(*   - a rating is a whole number of 1/Pt rating points, Pt = PScale *     *)
(*     WScale, fine enough that k * weight * (actual - expected) is whole; *)
(*   - expected_score, 1 / (1 + 10 ** ((rb - ra) / 400)), is evaluated by  *)
(*     its values at every 100 rating points and linear interpolation.     *)
(***************************************************************************)
EXTENDS Integers, Sequences, FiniteSets, TLC

VARIABLES
    \* EloRatingSystem (src/features/build.py)
    initial_elo, k_factor, home_advantage, ratings,
    ret,            \* what the last call on the rating book returned
    calls,          \* number of calls made on the rating book
    \* build_elo_features (src/features/build.py)
    games_df,       \* the input rows, in the caller's order
    sorted_df,      \* games_df.sort_values('date').reset_index(drop=True)
    fpc,            \* position in build_elo_features
    features,       \* the list of feature rows
    trace,          \* the reads and updates of the rating book, in order
    \* IsotonicCalibrator and its caller (src/scripts/live_games.py)
    samples,        \* the caller's lists probs, outcomes, weights, zipped
    bins,           \* self._bins
    fitted,         \* the arguments of the last fit, and whether it found
                    \* bins of an earlier fit
    \* _build_elo_from_scores (src/scripts/live_games.py)
    live_args,      \* k_factor, home_advantage, draw_calibration
    live,           \* the function's locals
    live_pc,        \* position in the function
    live_last,      \* the game of the last iteration and the ratings before it
    live_ret,       \* the returned tuple
    \* run_backtest (src/backtest/run.py) and get_closing_odds
    \* (src/ingest/odds.py)
    bt_args,        \* ev_threshold, stake_size, min_games, and the first
                    \* label of the index of features_df
    bt_pc,          \* position in run_backtest
    bt_n,           \* number of rows iterrows has yielded
    bets,           \* the ledger
    bankroll,       \* the list bankroll
    current_bankroll,
    bt_last,        \* the row of the last iteration and what was done with it
    bt_ret,         \* the returned dictionary
    closing_ret,    \* what the last call of get_closing_odds returned
    \* the market math (src/edge/odds_math.py, src/scripts/live_games.py)
    math_ret,       \* the last call of a market-math function and its result
    \* PropsAnalyzer (src/props/analyzer.py) and outcome_metrics
    \* (src/scripts/live_games.py)
    props_cfg,      \* the analyzer's fields, or the live path's CONFIG
    props_ret,      \* the last call, its arguments and its result
    caller_edges,   \* the PropEdge list a caller passes to get_best_edges
    \* build_elo_features, the branch with a league column
    \* (src/features/build.py)
    elo_systems,    \* the rating book of each league seen so far
    \* IsotonicCalibrator.fit, step by step (src/scripts/live_games.py)
    fit_data,       \* data: the zipped samples, sorted by probability
    fit_blocks,     \* blocks
    fit_i,          \* number of samples the for loop has taken
    fit_pc          \* position in fit

eloVars == <<initial_elo, k_factor, home_advantage, ratings, ret, calls>>
featVars == <<games_df, sorted_df, fpc, features, trace>>
isoVars == <<samples, bins, fitted>>
liveVars == <<live_args, live, live_pc, live_last, live_ret>>
btVars == <<bt_args, bt_pc, bt_n, bets, bankroll, current_bankroll, bt_last,
           bt_ret, closing_ret>>
mathVars == <<math_ret>>
propsVars == <<props_cfg, props_ret, caller_edges>>
leagueVars == <<elo_systems>>
fitVars == <<fit_data, fit_blocks, fit_i, fit_pc>>
vars == <<eloVars, featVars, isoVars, liveVars, btVars, mathVars, propsVars, leagueVars, fitVars>>

(* What the actions of one component leave alone. *)
notFeat == <<isoVars, liveVars, btVars, mathVars, propsVars, leagueVars, fitVars>>
notIso == <<eloVars, featVars, liveVars, btVars, mathVars, propsVars, leagueVars, fitVars>>
notBook == <<featVars, isoVars, liveVars, btVars, mathVars, propsVars, leagueVars, fitVars>>
notLive == <<eloVars, featVars, isoVars, btVars, mathVars, propsVars, leagueVars, fitVars>>
notBt == <<eloVars, featVars, isoVars, liveVars, mathVars, propsVars, leagueVars, fitVars>>
notMath == <<eloVars, featVars, isoVars, liveVars, btVars, propsVars, leagueVars, fitVars>>
notProps == <<eloVars, featVars, isoVars, liveVars, btVars, mathVars, leagueVars, fitVars>>
notLeague == <<isoVars, liveVars, btVars, mathVars, propsVars, fitVars>>
notFit == <<eloVars, featVars, liveVars, btVars, mathVars, propsVars, leagueVars>>

----------------------------------------------------------------------------
(* Bounds of the model *)

MaxGames == 2
MaxCalls == 2

----------------------------------------------------------------------------
(* Fixed-point units *)

PScale == 1000
WScale == 2
Pt == PScale * WScale

Min(a, b) == IF a <= b THEN a ELSE b
Max(a, b) == IF a >= b THEN a ELSE b

RECURSIVE SeqSum(_)
SeqSum(s) == IF s = <<>> THEN 0 ELSE Head(s) + SeqSum(Tail(s))

----------------------------------------------------------------------------
(* Elo parameters *)

DEFAULT_INITIAL_ELO == 1500
DEFAULT_K_FACTOR == 20
DEFAULT_HOME_ADVANTAGE == 100

Teams == {"A", "B", "C"}

----------------------------------------------------------------------------
(* The state of each component before it is used *)

EloIdle ==
    /\ initial_elo = DEFAULT_INITIAL_ELO * Pt
    /\ k_factor = DEFAULT_K_FACTOR
    /\ home_advantage = DEFAULT_HOME_ADVANTAGE * Pt
    /\ ratings = <<>>
    /\ ret = [op |-> "none"]
    /\ calls = 0

FeatIdle ==
    /\ games_df = <<>>
    /\ sorted_df = <<>>
    /\ fpc = "idle"
    /\ features = <<>>
    /\ trace = <<>>

IsoIdle ==
    /\ samples = <<>>
    /\ bins = <<>>
    /\ fitted = [called |-> FALSE]

LiveIdle ==
    /\ live_args = [k_factor |-> 0, home_advantage |-> 0, draw_calibration |-> FALSE]
    /\ live = [ratings |-> <<>>]
    /\ live_pc = "idle"
    /\ live_last = [updated |-> FALSE]
    /\ live_ret = [returned |-> FALSE]

BtIdle ==
    /\ bt_args = [ev_threshold |-> 0, stake_size |-> 0, min_games |-> 0,
                     index_start |-> 0]
    /\ bt_pc = "idle"
    /\ bt_n = 0
    /\ bets = <<>>
    /\ bankroll = <<>>
    /\ current_bankroll = 0
    /\ bt_last = [action |-> "none"]
    /\ bt_ret = [returned |-> FALSE]
    /\ closing_ret = [called |-> FALSE]

MathIdle == math_ret = [op |-> "none"]

PropsIdle ==
    /\ props_cfg = [configured |-> FALSE]
    /\ props_ret = [op |-> "none"]
    /\ caller_edges = <<>>

LeagueIdle == elo_systems = <<>>

FitIdle ==
    /\ fit_data = <<>>
    /\ fit_blocks = <<>>
    /\ fit_i = 0
    /\ fit_pc = "idle"

(* A score as a row carries it: a number, None (missing) or NaN. *)
Num(n) == [k |-> "num", v |-> n]
None == [k |-> "none", v |-> 0]
NaN == [k |-> "nan", v |-> 0]

(* pd.notna / pd.isna: None and NaN are both missing. *)
notna(s) == s.k = "num"

(* Python's > on two scores that float() accepted: any comparison with NaN is
   False. *)
ScoreGt(a, b) == a.k = "num" /\ b.k = "num" /\ a.v > b.v

----------------------------------------------------------------------------
(* EloRatingSystem *)

(* 1000 / (1 + 10 ** (-d / 400)) at d = -800, -700, ..., 800, rounded. *)
EloTable == <<10, 17, 31, 53, 91, 151, 240, 360, 500,
              640, 760, 849, 909, 947, 969, 983, 990>>

expected_score(rating_a, rating_b) ==
    LET d == rating_a - rating_b
        step == 100 * Pt
        seg == Max(-8, Min(7, d \div step))
        frac == Max(0, Min(step, d - seg * step))
        lo == EloTable[seg + 9]
        hi == EloTable[seg + 10]
    IN  lo + ((hi - lo) * frac) \div step

(* The participant set to the initial rating at every access. *)
RegisteredAfresh(book, team, init) ==
    [t \in DOMAIN book \cup {team} |-> IF t = team THEN init ELSE book[t]]

(* get_rating: the book after the call (the participant lazily recorded). *)
Registered(book, team, init) ==
    IF team \in DOMAIN book THEN book
    ELSE [t \in DOMAIN book \cup {team} |-> IF t = team THEN init ELSE book[t]]

get_rating(book, team, init) == Registered(book, team, init)[team]

(* actual_home, actual_away in 1/PScale. *)
Actual(home_score, away_score) ==
    IF ScoreGt(home_score, away_score) THEN <<PScale, 0>>
    ELSE IF ScoreGt(away_score, home_score) THEN <<0, PScale>>
    ELSE <<PScale \div 2, PScale \div 2>>

(* The away side credited against the home side's expectation. *)
UpdateDeltaAwayHomeExpectation(k, actual_away, expected_away) ==
    k * (actual_away - (PScale - expected_away)) * WScale

(* self.k_factor * (actual_away - expected_away) *)
UpdateDeltaAway(k, actual_away, expected_away) ==
    k * (actual_away - expected_away) * WScale

(* update_ratings: <<home_elo_before, away_elo_before, home_elo_after,
   away_elo_after>>. *)
update_ratings_ret(book, init, k, adv, home_team, away_team, home_score, away_score) ==
    LET b1 == Registered(book, home_team, init)
        b2 == Registered(b1, away_team, init)
        home_elo_before == b1[home_team]
        away_elo_before == b2[away_team]
        home_elo_adjusted == home_elo_before + adv
        expected_home == expected_score(home_elo_adjusted, away_elo_before)
        expected_away == PScale - expected_home
        actual == Actual(home_score, away_score)
        home_elo_after == home_elo_before + k * (actual[1] - expected_home) * WScale
        away_elo_after == away_elo_before + UpdateDeltaAway(k, actual[2], expected_away)
    IN  <<home_elo_before, away_elo_before, home_elo_after, away_elo_after>>

(* update_ratings: the book after the call. *)
update_ratings(book, init, k, adv, home_team, away_team, home_score, away_score) ==
    LET b2 == Registered(Registered(book, home_team, init), away_team, init)
        r == update_ratings_ret(book, init, k, adv, home_team, away_team,
                                home_score, away_score)
        b3 == [b2 EXCEPT ![home_team] = r[3]]
    IN  [b3 EXCEPT ![away_team] = r[4]]

(* predict_game: <<p_home, p_away>>; the book after it is the book with both
   participants registered. *)
predict_game(book, init, adv, home_team, away_team) ==
    LET b1 == Registered(book, home_team, init)
        b2 == Registered(b1, away_team, init)
        p_home == expected_score(b1[home_team] + adv, b2[away_team])
    IN  <<p_home, PScale - p_home>>

----------------------------------------------------------------------------
(* build_elo_features, the branch without a league column *)

FeatTeams == {"A", "B"}
Dates == {1, 2}

(* <<home_score, away_score>> of a row: a home win, an away win, a tie, and
   rows of games not yet played (a score None or NaN). *)
ScorePairs == {<<Num(2), Num(1)>>, <<Num(1), Num(2)>>, <<Num(1), Num(1)>>,
               <<None, Num(1)>>, <<Num(1), NaN>>}

Fixtures(teams) == {m \in teams \X teams : m[1] # m[2]}

GameRows(id) ==
    {[game_id |-> id, date |-> d, home_team |-> m[1], away_team |-> m[2],
      home_score |-> sc[1], away_score |-> sc[2]] :
        d \in Dates, m \in Fixtures(FeatTeams), sc \in ScorePairs}

(* The frames of n rows; game_id is the row's place in the caller's frame. *)
RECURSIVE Frames(_)
Frames(n) ==
    IF n = 0 THEN {<<>>}
    ELSE {Append(f, r) : f \in Frames(n - 1), r \in GameRows(n)}

Injections(n) == {p \in [1..n -> 1..n] : \A i, j \in 1..n : p[i] = p[j] => i = j}

Reordered(df, p) == [i \in 1..Len(df) |-> df[p[i]]]

AscendingByDate(df) == \A i, j \in 1..Len(df) : i < j => df[i].date <= df[j].date

AnyOrder(df) == {Reordered(df, p) : p \in Injections(Len(df))}

(* The frame left in the caller's order. *)
sort_values_skipped(df) == {df}

(* sort_values('date'): the rows in ascending date order. The default sort
   is not stable, so rows of one date come in any order. *)
sort_values(df) == {s \in AnyOrder(df) : AscendingByDate(s)}

FeatureRow(book, init, adv, game) ==
    LET b1 == Registered(book, game.home_team, init)
        b2 == Registered(b1, game.away_team, init)
        p == predict_game(b2, init, adv, game.home_team, game.away_team)
    IN  [game_id |-> game.game_id, date |-> game.date,
         home_team |-> game.home_team, away_team |-> game.away_team,
         home_elo |-> b1[game.home_team], away_elo |-> b2[game.away_team],
         elo_diff |-> b1[game.home_team] - b2[game.away_team],
         p_home |-> p[1], p_away |-> p[2]]

Played(game) == notna(game.home_score) /\ notna(game.away_score)

(* The book after one iteration of the loop over the rows. *)
BookAfter(book, init, k, adv, game) ==
    LET b2 == Registered(Registered(book, game.home_team, init),
                         game.away_team, init)
    IN  IF Played(game)
        THEN update_ratings(b2, init, k, adv, game.home_team, game.away_team,
                            game.home_score, game.away_score)
        ELSE b2

InitFeatures ==
    /\ EloIdle
    /\ IsoIdle
    /\ LiveIdle
    /\ BtIdle
    /\ MathIdle
    /\ PropsIdle
    /\ LeagueIdle
    /\ FitIdle
    /\ games_df \in UNION {Frames(n) : n \in 0..MaxGames}
    /\ sorted_df = <<>>
    /\ fpc = "sort"
    /\ features = <<>>
    /\ trace = <<>>

(* build.py:182 and 231-232 *)
SortValues ==
    /\ fpc = "sort"
    /\ sorted_df' \in sort_values(games_df)
    /\ ratings' = <<>>
    /\ features' = <<>>
    /\ fpc' = "loop"
    /\ UNCHANGED <<initial_elo, k_factor, home_advantage, ret, calls, games_df, trace, notFeat>>

(* build.py:234-263, one iteration *)
ProcessGame ==
    /\ fpc = "loop"
    /\ Len(features) < Len(sorted_df)
    /\ LET game == sorted_df[Len(features) + 1]
       IN  /\ features' = Append(features,
                                 FeatureRow(ratings, initial_elo, home_advantage, game))
           /\ ratings' = BookAfter(ratings, initial_elo, k_factor, home_advantage, game)
           /\ trace' = IF Played(game)
                       THEN trace \o <<[ev |-> "read", game_id |-> game.game_id],
                                       [ev |-> "update", game_id |-> game.game_id]>>
                       ELSE Append(trace, [ev |-> "read", game_id |-> game.game_id])
    /\ UNCHANGED <<initial_elo, k_factor, home_advantage, ret, calls,
                   games_df, sorted_df, fpc, notFeat>>

(* build.py:265 *)
ReturnFeatures ==
    /\ fpc = "loop"
    /\ Len(features) = Len(sorted_df)
    /\ fpc' = "done"
    /\ UNCHANGED <<eloVars, games_df, sorted_df, features, trace, notFeat>>

NextFeatures == SortValues \/ ProcessGame \/ ReturnFeatures

SpecFeatures == InitFeatures /\ [][NextFeatures]_vars

----------------------------------------------------------------------------
(* Claims about build_elo_features *)

RECURSIVE Replay(_, _, _, _, _)
Replay(book, init, k, adv, rows) ==
    IF rows = <<>> THEN book
    ELSE Replay(BookAfter(book, init, k, adv, Head(rows)), init, k, adv, Tail(rows))

StrictlyEarlier(df, d) ==
    LET Before(r) == r.date < d IN SelectSeq(df, Before)

(* C1: the recorded home_elo, away_elo, p_home and p_away of every game are
   those the rating book gives after the games dated strictly earlier, and
   no others, have been applied. *)
C1_PointInTime ==
    \A i \in 1..Len(features) :
        LET game == sorted_df[i]
            book == Replay(<<>>, initial_elo, k_factor, home_advantage,
                           StrictlyEarlier(sorted_df, game.date))
            f == FeatureRow(book, initial_elo, home_advantage, game)
        IN  /\ features[i].home_elo = f.home_elo
            /\ features[i].away_elo = f.away_elo
            /\ features[i].p_home = f.p_home
            /\ features[i].p_away = f.p_away

(* The place of an event in the trace, 0 when it has not happened. *)
At(ev, id) ==
    LET hits == {n \in 1..Len(trace) : trace[n] = [ev |-> ev, game_id |-> id]}
    IN  IF hits = {} THEN 0 ELSE CHOOSE n \in hits : TRUE

(* C5: the feature rows come out in ascending date order, and whenever game
   a is dated earlier than game b, a's features are read and a's update is
   applied before b's features are read and before b's update. *)
C5_AscendingEventTime ==
    /\ AscendingByDate(features)
    /\ \A a, b \in 1..Len(games_df) :
          (games_df[a].date < games_df[b].date /\ At("read", b) > 0) =>
              /\ At("read", a) > 0 /\ At("read", a) < At("read", b)
              /\ Played(games_df[a]) =>
                    /\ At("update", a) > 0
                    /\ At("update", a) < At("read", b)
                    /\ At("update", b) > 0 => At("update", a) < At("update", b)

(* The caller's frame lists a later game before an earlier one, both played,
   and both have been processed. *)
C5_Witness ==
    /\ fpc = "done"
    /\ \E a, b \in 1..Len(games_df) :
          /\ a > b
          /\ games_df[a].date < games_df[b].date
          /\ At("update", a) > 0 /\ At("update", b) > 0

----------------------------------------------------------------------------
(* IsotonicCalibrator *)

MaxSamples == 3

RECURSIVE GCD(_, _)
GCD(a, b) == IF b = 0 THEN a ELSE GCD(b, a % b)

(* The quotient n / d of a float division, d > 0, as a fraction in lowest
   terms. *)
Quot(n, d) ==
    LET g == GCD(IF n < 0 THEN -n ELSE n, d)
    IN  IF n = 0 THEN <<0, 1>> ELSE <<n \div g, d \div g>>

QLess(x, y) ==
    LET g == GCD(x[2], y[2])
    IN  x[1] * (y[2] \div g) < y[1] * (x[2] \div g)
QLeq(x, y) ==
    LET g == GCD(x[2], y[2])
    IN  x[1] * (y[2] \div g) <= y[1] * (x[2] \div g)

(* The probabilities, outcomes and weights a caller passes. A weight is a
   whole number of 1/WScale. *)
SampleProbs == {200, 400, 600}
SampleWeights == {1, 2}
Samples == {[p |-> p, y |-> y, w |-> w] :
                p \in SampleProbs, y \in {0, 1}, w \in SampleWeights}

(* weights or [1.0] * len(probs) *)
Unweighted(data) == [i \in 1..Len(data) |-> [data[i] EXCEPT !.w = WScale]]

(* sorted(zip(probs, outcomes, weights), key=lambda x: x[0]): stable. *)
RECURSIVE InsertByProb(_, _)
InsertByProb(sorted, x) ==
    IF sorted = <<>> THEN <<x>>
    ELSE IF Head(sorted).p <= x.p THEN <<Head(sorted)>> \o InsertByProb(Tail(sorted), x)
    ELSE <<x>> \o sorted

RECURSIVE SortedByProb(_)
SortedByProb(data) ==
    IF data = <<>> THEN <<>>
    ELSE InsertByProb(SortedByProb(SubSeq(data, 1, Len(data) - 1)), data[Len(data)])

(* blocks[-2][2] / blocks[-2][3] > blocks[-1][2] / blocks[-1][3] *)
Violates(b1, b2) == QLess(Quot(b2[3], b2[4]), Quot(b1[3], b1[4]))

(* The last two blocks merged once when they violate monotonicity, the new
   predecessor pair left unchecked. *)
MergeOnce(blocks) ==
    LET n == Len(blocks) IN
    IF n >= 2 /\ Violates(blocks[n - 1], blocks[n])
    THEN Append(SubSeq(blocks, 1, n - 2),
                <<blocks[n - 1][1], blocks[n][2], blocks[n - 1][3] + blocks[n][3],
                  blocks[n - 1][4] + blocks[n][4]>>)
    ELSE blocks

(* The while loop of fit: the last two blocks are merged as long as they
   violate monotonicity. *)
RECURSIVE MergeLoop(_)
MergeLoop(blocks) ==
    LET n == Len(blocks) IN
    IF n >= 2 /\ Violates(blocks[n - 1], blocks[n])
    THEN LET b2 == blocks[n]
             b1 == blocks[n - 1]
             merged == <<b1[1], b2[2], b1[3] + b2[3], b1[4] + b2[4]>>
         IN  MergeLoop(Append(SubSeq(blocks, 1, n - 2), merged))
    ELSE blocks

(* The for loop of fit over the sorted data. *)
RECURSIVE Blocks(_, _)
Blocks(blocks, data) ==
    IF data = <<>> THEN blocks
    ELSE LET x == Head(data)
         IN  Blocks(MergeLoop(Append(blocks, <<x.p, x.p, x.y * x.w, x.w>>)), Tail(data))

(* fit: the new self._bins. *)
fit(data) ==
    IF data = <<>> THEN <<>>
    ELSE LET blocks == Blocks(<<>>, SortedByProb(data))
         IN  [i \in 1..Len(blocks) |->
                 <<blocks[i][1], blocks[i][2], Quot(blocks[i][3], blocks[i][4])>>]

(* predict, on the bins b. *)
RECURSIVE FirstCoveringStrictly(_, _)
FirstCoveringStrictly(b, prob) ==
    IF b = <<>> THEN 0
    ELSE IF prob < Head(b)[2] THEN 1
    ELSE LET r == FirstCoveringStrictly(Tail(b), prob)
         IN  IF r = 0 THEN 0 ELSE r + 1

RECURSIVE FirstCovering(_, _)
FirstCovering(b, prob) ==
    IF b = <<>> THEN 0
    ELSE IF prob <= Head(b)[2] THEN 1
    ELSE LET r == FirstCovering(Tail(b), prob) IN IF r = 0 THEN 0 ELSE r + 1

predict(b, prob) ==
    IF b = <<>> THEN Quot(prob, PScale)
    ELSE LET i == FirstCovering(b, prob)
         IN  IF i > 0 THEN b[i][3] ELSE b[Len(b)][3]

InitIso ==
    /\ EloIdle
    /\ FeatIdle
    /\ LiveIdle
    /\ BtIdle
    /\ MathIdle
    /\ PropsIdle
    /\ LeagueIdle
    /\ FitIdle
    /\ IsoIdle

(* The caller appends one sample to its lists (live_games.py:277-284). *)
AppendSample ==
    /\ Len(samples) < MaxSamples
    /\ \E x \in Samples : samples' = Append(samples, x)
    /\ UNCHANGED <<bins, fitted, notIso>>

(* cal.fit(probs, outcomes, weights), or cal.fit(probs, outcomes) *)
Fit ==
    /\ \E weighted \in BOOLEAN :
          LET data == IF weighted THEN samples ELSE Unweighted(samples)
          IN  /\ bins' = fit(data)
              /\ fitted' = [called |-> TRUE, data |-> data, had_bins |-> bins # <<>>]
    /\ UNCHANGED <<samples, notIso>>

(* cal.fit([], []) by a caller that has no sample *)
FitEmpty ==
    /\ bins' = fit(<<>>)
    /\ fitted' = [called |-> TRUE, data |-> <<>>, had_bins |-> bins # <<>>]
    /\ UNCHANGED <<samples, notIso>>

NextIso == AppendSample \/ Fit \/ FitEmpty

SpecIso == InitIso /\ [][NextIso]_vars

(* The probabilities predict is asked about. *)
QueryProbs == {0, 100, 200, 300, 400, 500, 600, 700, 1000}

(* C3: after a fit, predict is non-decreasing in its input. *)
C3_PredictMonotone ==
    fitted.called =>
        \A p1, p2 \in QueryProbs :
            p1 <= p2 => QLeq(predict(bins, p1), predict(bins, p2))

(* A fit that merged violating samples and left at least two blocks of
   different means. *)
C3_Witness ==
    /\ fitted.called
    /\ Len(bins) >= 2
    /\ Len(bins) < Len(fitted.data)
    /\ QLess(predict(bins, 0), predict(bins, 1000))

(* The least member of a non-empty set of numbers. *)
Least(S) == CHOOSE x \in S : \A y \in S : x <= y

(* The blocks of b whose rangeEnd is at least prob. *)
Covering(b, prob) == {i \in 1..Len(b) : b[i][2] >= prob}

(* C19: predict(p) returns the mean of the first stored block whose
   rangeEnd >= p, the last block's mean when p exceeds every rangeEnd, and p
   itself whenever the calibrator holds no blocks: before any fit, after a
   fit on an empty sample, and after a fit on an empty sample that follows
   an earlier non-empty fit. *)
C19_PredictSemantics ==
    /\ ~fitted.called => bins = <<>>
    /\ (fitted.called /\ fitted.data = <<>>) => bins = <<>>
    /\ \A prob \in QueryProbs :
          IF bins = <<>> THEN predict(bins, prob) = Quot(prob, PScale)
          ELSE IF Covering(bins, prob) # {}
          THEN predict(bins, prob) = bins[Least(Covering(bins, prob))][3]
          ELSE predict(bins, prob) = bins[Len(bins)][3]

(* A fit on an empty sample that follows a fit which had left blocks. *)
C19_Witness ==
    /\ fitted.called
    /\ fitted.data = <<>>
    /\ fitted.had_bins
    /\ bins = <<>>
    /\ predict(bins, 300) = Quot(300, PScale)

(* Bins of two blocks or more: some queries fall on a block's rangeEnd,
   some between blocks, some beyond the last rangeEnd. *)
C19_BlocksQueried ==
    /\ Len(bins) >= 2
    /\ \E prob \in QueryProbs : prob = bins[1][2]
    /\ \E prob \in QueryProbs : Covering(bins, prob) = {}
    /\ \E prob \in QueryProbs :
          Covering(bins, prob) # {} /\ Least(Covering(bins, prob)) = 2

----------------------------------------------------------------------------
(* Calls on an EloRatingSystem *)

K_FACTORS == {16, 20}
HOME_ADVANTAGES == {0, 40, 100}

(* <<home_score, away_score>> of a finished game. *)
FinalScores == {<<2, 1>>, <<1, 2>>, <<1, 1>>}

(* EloRatingSystem(initial_elo, k_factor, home_advantage) *)
InitBook ==
    /\ initial_elo = DEFAULT_INITIAL_ELO * Pt
    /\ k_factor \in K_FACTORS
    /\ home_advantage \in {a * Pt : a \in HOME_ADVANTAGES}
    /\ ratings = <<>>
    /\ ret = [op |-> "none"]
    /\ calls = 0

CallGetRating ==
    /\ live_pc = "idle"
    /\ calls < MaxCalls
    /\ \E team \in Teams :
          /\ ratings' = Registered(ratings, team, initial_elo)
          /\ ret' = [op |-> "get_rating", team |-> team, before |-> ratings,
                     val |-> get_rating(ratings, team, initial_elo)]
    /\ calls' = calls + 1
    /\ UNCHANGED <<initial_elo, k_factor, home_advantage, notBook>>

CallUpdateRatings ==
    /\ live_pc = "idle"
    /\ calls < MaxCalls
    /\ \E m \in Fixtures(Teams), sc \in FinalScores :
          /\ ratings' = update_ratings(ratings, initial_elo, k_factor, home_advantage,
                                       m[1], m[2], Num(sc[1]), Num(sc[2]))
          /\ ret' = [op |-> "update_ratings", home_team |-> m[1], away_team |-> m[2],
                     home_score |-> sc[1], away_score |-> sc[2], before |-> ratings,
                     val |-> update_ratings_ret(ratings, initial_elo, k_factor,
                                                home_advantage, m[1], m[2],
                                                Num(sc[1]), Num(sc[2]))]
    /\ calls' = calls + 1
    /\ UNCHANGED <<initial_elo, k_factor, home_advantage, notBook>>

CallPredictGame ==
    /\ live_pc = "idle"
    /\ calls < MaxCalls
    /\ \E m \in Fixtures(Teams) :
          /\ ratings' = Registered(Registered(ratings, m[1], initial_elo), m[2], initial_elo)
          /\ ret' = [op |-> "predict_game", home_team |-> m[1], away_team |-> m[2],
                     before |-> ratings,
                     val |-> predict_game(ratings, initial_elo, home_advantage, m[1], m[2])]
    /\ calls' = calls + 1
    /\ UNCHANGED <<initial_elo, k_factor, home_advantage, notBook>>

----------------------------------------------------------------------------
(* _build_elo_from_scores *)

MaxLiveGames == 2

LIVE_INITIAL_RATING == 1500

(* The arguments of the three calls in _build_predictions. *)
LiveCalls ==
    {[k_factor |-> 18, home_advantage |-> 80, draw_calibration |-> TRUE],
     [k_factor |-> 16, home_advantage |-> 40, draw_calibration |-> FALSE],
     [k_factor |-> 20, home_advantage |-> 60, draw_calibration |-> FALSE]}

LiveGames ==
    {[date |-> d, home_team |-> m[1], away_team |-> m[2],
      home_score |-> sc[1], away_score |-> sc[2]] :
        d \in Dates, m \in Fixtures(FeatTeams), sc \in ScorePairs}

(* _time_weight, in 1/WScale: a game dated now weighs 1, a game one
   half-life old weighs 1/2. Date 2 is now, date 1 one half-life ago. *)
time_weight(date) == IF date = 2 THEN WScale ELSE WScale \div 2

live_expected_score(rating_a, rating_b) == expected_score(rating_a, rating_b)

(* float(game["home_score"]) raises on None. *)
FloatRaises(s) == s.k = "none"

LiveStart ==
    [i |-> 0, ratings |-> <<>>, counts |-> <<>>, last_played |-> <<>>,
     home_probs |-> <<>>, away_probs |-> <<>>, draw_probs |-> <<>>,
     home_outcomes |-> <<>>, away_outcomes |-> <<>>, draw_outcomes |-> <<>>,
     weights |-> <<>>, draw_weighted |-> 0, total_weighted |-> 0]

Put(f, key, val) == [t \in DOMAIN f \cup {key} |-> IF t = key THEN val ELSE f[t]]

(* The locals after the part of an iteration that runs for every game
   (live_games.py:231-247); i is the place of the loop in scores. *)
LiveSeen(l, game) ==
    LET r == Registered(Registered(l.ratings, game.home_team, LIVE_INITIAL_RATING * Pt),
                        game.away_team, LIVE_INITIAL_RATING * Pt)
        c == Registered(Registered(l.counts, game.home_team, 0), game.away_team, 0)
    IN  [l EXCEPT !.i = @ + 1, !.ratings = r, !.counts = c,
                  !.total_weighted = @ + time_weight(game.date)]

(* The locals after an iteration whose scores float() accepted
   (live_games.py:254-284). *)
LiveUpdated(l0, args, game) ==
    LET l == LiveSeen(l0, game)
        home == game.home_team
        away == game.away_team
        weight == time_weight(game.date)
        p_home_raw == live_expected_score(l.ratings[home] + args.home_advantage * Pt,
                                          l.ratings[away])
        p_away_raw == PScale - p_home_raw
        actual == Actual(game.home_score, game.away_score)
        tie == ~ScoreGt(game.home_score, game.away_score)
               /\ ~ScoreGt(game.away_score, game.home_score)
        k_eff == args.k_factor * weight
        r1 == [l.ratings EXCEPT ![home] = @ + k_eff * (actual[1] - p_home_raw)]
        r2 == [r1 EXCEPT ![away] = @ + k_eff * (actual[2] - p_away_raw)]
        c1 == [l.counts EXCEPT ![home] = @ + 1]
        c2 == [c1 EXCEPT ![away] = @ + 1]
        l2 == [l EXCEPT !.ratings = r2, !.counts = c2,
                        !.last_played = Put(Put(@, home, game.date), away, game.date),
                        !.draw_weighted = IF tie THEN @ + weight ELSE @]
    IN  IF args.draw_calibration
        THEN [l2 EXCEPT !.home_probs = Append(@, p_home_raw),
                        !.away_probs = Append(@, p_away_raw),
                        !.draw_probs = Append(@, 0),
                        !.home_outcomes = Append(@, IF actual[1] = PScale THEN 1 ELSE 0),
                        !.away_outcomes = Append(@, IF actual[2] = PScale THEN 1 ELSE 0),
                        !.draw_outcomes = Append(@, IF tie THEN 1 ELSE 0),
                        !.weights = Append(@, weight)]
        ELSE l2

(* One iteration of the loop over scores. *)
LiveIteration(l, args, game) ==
    IF FloatRaises(game.home_score) \/ FloatRaises(game.away_score)
    THEN LiveSeen(l, game)
    ELSE LiveUpdated(l, args, game)

(* CONFIG["min_draw_rate"] and the fallback draw rate, in 1/PScale. *)
MIN_DRAW_RATE == 50
FALLBACK_DRAW_RATE == 250

(* live_games.py:286-288; the quotient is cut to a whole number of 1/PScale. *)
draw_rate(l) ==
    LET raw == IF l.total_weighted # 0
               THEN (l.draw_weighted * PScale) \div l.total_weighted
               ELSE FALLBACK_DRAW_RATE
        below == IF l.total_weighted # 0
                 THEN l.draw_weighted * PScale < MIN_DRAW_RATE * l.total_weighted
                 ELSE FALLBACK_DRAW_RATE < MIN_DRAW_RATE
    IN  IF below THEN FALLBACK_DRAW_RATE ELSE raw

has_both_classes(outcomes) ==
    /\ \E i \in 1..Len(outcomes) : outcomes[i] = 0
    /\ \E i \in 1..Len(outcomes) : outcomes[i] = 1

Zip(probs, outcomes, weights) ==
    [i \in 1..Min(Len(probs), Min(Len(outcomes), Len(weights))) |->
        [p |-> probs[i], y |-> outcomes[i], w |-> weights[i]]]

NoCalibrator == [none |-> TRUE, bins |-> <<>>]

(* A calibrator fitted when the outcomes hold both classes, else None. *)
Calibrated(probs, outcomes, weights) ==
    IF has_both_classes(outcomes)
    THEN [none |-> FALSE, bins |-> fit(Zip(probs, outcomes, weights))]
    ELSE NoCalibrator

(* live_games.py:286-311 *)
LiveResult(l, args) ==
    LET rate == draw_rate(l)
        cal == args.draw_calibration /\ l.home_probs # <<>>
    IN  [returned |-> TRUE, ratings |-> l.ratings, counts |-> l.counts,
         last_played |-> l.last_played,
         home_cal |-> IF cal THEN Calibrated(l.home_probs, l.home_outcomes, l.weights)
                      ELSE NoCalibrator,
         away_cal |-> IF cal THEN Calibrated(l.away_probs, l.away_outcomes, l.weights)
                      ELSE NoCalibrator,
         draw_cal |-> IF cal
                      THEN Calibrated([i \in 1..Len(l.draw_outcomes) |-> rate],
                                      l.draw_outcomes, l.weights)
                      ELSE NoCalibrator,
         draw_rate |-> rate]

InitLive ==
    /\ live_args \in LiveCalls
    /\ live = LiveStart
    /\ live_pc = "loop"
    /\ live_last = [updated |-> FALSE]
    /\ live_ret = [returned |-> FALSE]

LiveGame ==
    /\ live_pc = "loop"
    /\ live.i < MaxLiveGames
    /\ \E game \in LiveGames :
          /\ live' = LiveIteration(live, live_args, game)
          /\ live_last' = [updated |-> TRUE, game |-> game, before |-> live]
    /\ UNCHANGED <<live_args, live_pc, live_ret, notLive>>

LiveReturn ==
    /\ live_pc = "loop"
    /\ live_ret' = LiveResult(live, live_args)
    /\ live_pc' = "done"
    /\ UNCHANGED <<live_args, live, live_last, notLive>>

(* A rating book is either called directly or built by the live builder. *)
InitRating ==
    /\ FeatIdle
    /\ IsoIdle
    /\ BtIdle
    /\ MathIdle
    /\ PropsIdle
    /\ LeagueIdle
    /\ FitIdle
    /\ \/ InitBook /\ LiveIdle
       \/ EloIdle /\ InitLive

NextRating ==
    \/ CallGetRating
    \/ CallUpdateRatings
    \/ CallPredictGame
    \/ LiveGame
    \/ LiveReturn

SpecRating == InitRating /\ [][NextRating]_vars

----------------------------------------------------------------------------
(* Claims about rating updates *)

(* C2: every rating update is zero-sum, both deltas being k * (actual -
   expected) on the expectations of the ratings before the update: for a call
   of update_ratings, on what it returns and stores; for an iteration of the
   live builder, on the ratings before and after it. *)
C2_ZeroSum ==
    /\ ret.op = "update_ratings" =>
          LET v == ret.val
              hb == get_rating(ret.before, ret.home_team, initial_elo)
              ab == get_rating(ret.before, ret.away_team, initial_elo)
              e == expected_score(hb + home_advantage, ab)
              act == Actual(Num(ret.home_score), Num(ret.away_score))
          IN  /\ v[1] = hb /\ v[2] = ab
              /\ (v[3] - v[1]) + (v[4] - v[2]) = 0
              /\ v[3] - v[1] = k_factor * (act[1] - e) * WScale
              /\ v[4] - v[2] = k_factor * (act[2] - (PScale - e)) * WScale
              /\ ratings[ret.home_team] = v[3]
              /\ ratings[ret.away_team] = v[4]
    /\ live_last.updated =>
          LET g == live_last.game
              hb == get_rating(live_last.before.ratings, g.home_team,
                               LIVE_INITIAL_RATING * Pt)
              ab == get_rating(live_last.before.ratings, g.away_team,
                               LIVE_INITIAL_RATING * Pt)
          IN  (live.ratings[g.home_team] - hb) + (live.ratings[g.away_team] - ab) = 0

(* An update of a book whose ratings an earlier update has already moved,
   after a game that was not a tie. *)
C2_Witness ==
    /\ ret.op = "update_ratings"
    /\ ret.home_score # ret.away_score
    /\ ret.val[1] # initial_elo
    /\ ret.val[2] # initial_elo
    /\ ret.val[3] # ret.val[1]

(* b2 is b with nothing changed but participants recorded at init. *)
NoRatingChanged(b, b2, init) ==
    \A t \in DOMAIN b2 : b2[t] = IF t \in DOMAIN b THEN b[t] ELSE init

Missing(s) == s.k # "num"

C4_Step ==
    /\ (fpc = "loop" /\ Len(features') = Len(features) + 1
            /\ ~Played(sorted_df[Len(features) + 1]))
          => NoRatingChanged(ratings, ratings', initial_elo)
    /\ (live_pc = "loop" /\ live'.i = live.i + 1
            /\ (Missing(live_last'.game.home_score)
                \/ Missing(live_last'.game.away_score)))
          => NoRatingChanged(live.ratings, live'.ratings, LIVE_INITIAL_RATING * Pt)

(* C4: an iteration over a game whose home score or away score is missing or
   NaN changes no stored rating, in build_elo_features and in the live
   builder. *)
C4_MissingScoreNoOp == [][C4_Step]_vars

(* The part of C4 that the code keeps: a score that is None in the live
   builder, a score that is None or NaN in build_elo_features. *)
C4_NoneStep ==
    /\ (fpc = "loop" /\ Len(features') = Len(features) + 1
            /\ ~Played(sorted_df[Len(features) + 1]))
          => NoRatingChanged(ratings, ratings', initial_elo)
    /\ (live_pc = "loop" /\ live'.i = live.i + 1
            /\ (FloatRaises(live_last'.game.home_score)
                \/ FloatRaises(live_last'.game.away_score)))
          => NoRatingChanged(live.ratings, live'.ratings, LIVE_INITIAL_RATING * Pt)

C4_NoneScoreNoOp == [][C4_NoneStep]_vars

----------------------------------------------------------------------------
(* Market math (src/edge/odds_math.py) *)

(* Decimal odds, stakes' payouts and bankrolls are whole numbers of
   1/MoneyScale; an expected value is a whole number of
   1/(PScale * MoneyScale).  A moneyline is a whole number, as quoted; for
   the moneylines of the model, -200, -110 and 200, MoneyScale times the
   decimal odds is whole. *)
MoneyScale == 22

(* Float arithmetic on quotients; common factors are taken out before
   multiplying. *)
Abs(n) == IF n < 0 THEN -n ELSE n
QAdd(x, y) ==
    LET g == GCD(x[2], y[2])
    IN  Quot(x[1] * (y[2] \div g) + y[1] * (x[2] \div g),
             (x[2] \div g) * y[2])
QNeg(x) == <<-x[1], x[2]>>
QSub(x, y) == QAdd(x, QNeg(y))
QMul(x, y) ==
    IF x[1] = 0 \/ y[1] = 0
    THEN <<0, 1>>
    ELSE LET g1 == GCD(Abs(x[1]), y[2])
             g2 == GCD(Abs(y[1]), x[2])
         IN  Quot((x[1] \div g1) * (y[1] \div g2),
                  (x[2] \div g2) * (y[2] \div g1))
(* x / y for y other than 0 *)
QDiv(x, y) ==
    QMul(x, IF y[1] < 0 THEN <<-y[2], -y[1]>> ELSE <<y[2], y[1]>>)
QMax(x, y) == IF QLess(x, y) THEN y ELSE x
QMin(x, y) == IF QLess(y, x) THEN y ELSE x

RECURSIVE QSum(_)
QSum(s) == IF s = <<>> THEN <<0, 1>> ELSE QAdd(Head(s), QSum(Tail(s)))

american_to_implied_prob(american_odds) ==
    IF american_odds < 0
    THEN Quot(-american_odds, -american_odds + 100)
    ELSE Quot(100, american_odds + 100)

american_to_decimal(american_odds) ==
    IF american_odds < 0
    THEN MoneyScale + (MoneyScale * 100) \div (-american_odds)
    ELSE MoneyScale + (MoneyScale * american_odds) \div 100

de_vig_by_larger_side(p_home_raw, p_away_raw) ==
    LET total == QAdd(p_home_raw, p_away_raw)
    IN  IF total[1] = 0
        THEN [raised |-> "ValueError"]
        ELSE [raised |-> "none",
              p_home_fair |-> QDiv(p_home_raw, QMax(p_home_raw, p_away_raw)),
              p_away_fair |-> QDiv(p_away_raw, QMax(p_home_raw, p_away_raw))]

de_vig(p_home_raw, p_away_raw) ==
    LET total == QAdd(p_home_raw, p_away_raw)
    IN  IF total[1] = 0
        THEN [raised |-> "ValueError"]
        ELSE [raised |-> "none",
              p_home_fair |-> QDiv(p_home_raw, total),
              p_away_fair |-> QDiv(p_away_raw, total)]

expected_value(p_true, decimal_odds) ==
    p_true * (decimal_odds - MoneyScale) - (PScale - p_true) * MoneyScale

compute_edge_from_american(p_true, home_ml, away_ml, side) ==
    IF side \notin {"home", "away"}
    THEN [raised |-> "ValueError"]
    ELSE
    LET odds == IF side = "home" THEN home_ml ELSE away_ml
        p_home_raw == american_to_implied_prob(home_ml)
        p_away_raw == american_to_implied_prob(away_ml)
        fair == de_vig(p_home_raw, p_away_raw)
    IN  IF fair.raised # "none"
        THEN fair
        ELSE
        LET p_market_fair ==
                IF side = "home" THEN fair.p_home_fair ELSE fair.p_away_fair
            decimal == american_to_decimal(odds)
        IN  [raised |-> "none",
             p_market_raw |->
                 IF side = "home" THEN p_home_raw ELSE p_away_raw,
             p_market_fair |-> p_market_fair,
             decimal_odds |-> decimal,
             ev |-> expected_value(p_true, decimal),
             edge_pct |->
                 Quot((p_true * p_market_fair[2]
                       - p_market_fair[1] * PScale) * 100,
                      PScale * p_market_fair[2])]

----------------------------------------------------------------------------
(* The odds table and get_closing_odds (src/db_schema.py,
   src/ingest/odds.py) *)

(* Capture time and prices of the quotes in the model. *)
Quotes == {<<1, -110, -110>>, <<1, 200, 200>>, <<1, -200, 200>>,
           <<2, 200, 200>>}

(* The rows the table odds may hold for one game. *)
OddsRows(game_id) ==
    {[game_id |-> game_id, book |-> "book", timestamp |-> q[1],
      home_ml |-> q[2], away_ml |-> q[3], source |-> "closing"] :
        q \in Quotes}
    \cup {[game_id |-> game_id, book |-> "book", timestamp |-> 2,
           home_ml |-> -110, away_ml |-> -110, source |-> "opening"]}

(* The rows of one game in the order the store returns them when the query
   asks for no order: none, one, or two different rows either way round. *)
Stores(game_id) ==
    {<<>>}
    \cup {<<q>> : q \in OddsRows(game_id)}
    \cup {<<q[1], q[2]>> :
            q \in {r \in OddsRows(game_id) \X OddsRows(game_id) :
                     r[1] # r[2]}}

ClosingFilterAnySource(stored, game_id) ==
    SelectSeq(stored, LAMBDA q : q.game_id = game_id)

(* session.query(Odds).filter(Odds.game_id == game_id,
   Odds.source == 'closing') *)
ClosingFilter(stored, game_id) ==
    SelectSeq(stored,
              LAMBDA q : q.game_id = game_id /\ q.source = "closing")

(* The values get_closing_odds may return: order_by(timestamp.desc())
   .first() is a row of the latest timestamp, any of them when several rows
   share it. *)
get_closing_odds(game_id, stored) ==
    LET found == ClosingFilter(stored, game_id)
        first == {i \in DOMAIN found :
                    \A j \in DOMAIN found :
                        found[j].timestamp <= found[i].timestamp}
    IN  IF found = <<>>
        THEN {None}
        ELSE {[game_id |-> found[i].game_id, book |-> found[i].book,
               timestamp |-> found[i].timestamp,
               home_ml |-> found[i].home_ml,
               away_ml |-> found[i].away_ml] : i \in first}

----------------------------------------------------------------------------
(* run_backtest (src/backtest/run.py) *)

MaxRows == 2

(* The calls: the defaults, the call of the script (warm-up of five rows)
   and a call with every argument changed, each on a frame with the
   RangeIndex build_elo_features gives it, and a call with a warm-up of one
   row on a frame whose labels start at 1 (a slice or a selection of a
   longer frame).  ev_threshold is in the unit of an expected value,
   stake_size a whole number of units; the n-th row of the frame (from 0)
   has the label index_start + n. *)
BtCalls ==
    {[ev_threshold |-> (PScale * MoneyScale) \div 100, stake_size |-> 1,
      min_games |-> 0, index_start |-> 0],
     [ev_threshold |-> (PScale * MoneyScale) \div 100, stake_size |-> 1,
      min_games |-> 5, index_start |-> 0],
     [ev_threshold |-> (3 * PScale * MoneyScale) \div 10, stake_size |-> 2,
      min_games |-> 1, index_start |-> 0],
     [ev_threshold |-> (PScale * MoneyScale) \div 100, stake_size |-> 1,
      min_games |-> 1, index_start |-> 1]}

ModelProbs == {500, 600}
Winners == {"home", "away", "draw", "None"}

(* The rows iterrows may yield as its n-th (from 0), with their label. *)
BtRows(index_start, n) ==
    {[idx |-> index_start + n, game_id |-> n + 1, date |-> n + 1, p_home |-> p,
      p_away |-> PScale - p, winner |-> w] :
        p \in ModelProbs, w \in Winners}

best_side_home_on_ties(home_edge, away_edge, ev_threshold) ==
    IF home_edge.ev > ev_threshold /\ home_edge.ev >= away_edge.ev
    THEN "home"
    ELSE IF away_edge.ev > ev_threshold THEN "away" ELSE "None"

best_side_away_first(home_edge, away_edge, ev_threshold) ==
    IF away_edge.ev > ev_threshold
    THEN "away"
    ELSE IF home_edge.ev > ev_threshold THEN "home" ELSE "None"

best_side(home_edge, away_edge, ev_threshold) ==
    IF home_edge.ev > ev_threshold /\ home_edge.ev > away_edge.ev
    THEN "home"
    ELSE IF away_edge.ev > ev_threshold THEN "away" ELSE "None"

profit_with_stake_returned(stake_size, decimal_odds, won) ==
    IF won THEN stake_size * decimal_odds ELSE -(stake_size * MoneyScale)

(* profit, in 1/MoneyScale. *)
profit(stake_size, decimal_odds, won) ==
    IF won
    THEN stake_size * (decimal_odds - MoneyScale)
    ELSE -(stake_size * MoneyScale)

(* The ledger entry with the profit of the bet alone as its bankroll. *)
BetWithOwnProfitAsBankroll(args, row, odds, side, edge, bankroll_before) ==
    LET won == (row.winner = side)
        p == profit(args.stake_size, edge.decimal_odds, won)
    IN  [game_id |-> row.game_id, date |-> row.date, side |-> side,
         odds |-> IF side = "home" THEN odds.home_ml ELSE odds.away_ml,
         stake |-> args.stake_size, ev |-> edge.ev,
         edge_pct |-> edge.edge_pct, won |-> won, profit |-> p,
         bankroll |-> p]

(* The ledger entry of a bet on side for row at the quote odds. *)
Bet(args, row, odds, side, edge, bankroll_before) ==
    LET won == (row.winner = side)
        p == profit(args.stake_size, edge.decimal_odds, won)
    IN  [game_id |-> row.game_id, date |-> row.date, side |-> side,
         odds |-> IF side = "home" THEN odds.home_ml ELSE odds.away_ml,
         stake |-> args.stake_size, ev |-> edge.ev,
         edge_pct |-> edge.edge_pct, won |-> won, profit |-> p,
         bankroll |-> bankroll_before + p]

(* One pass of the loop body over row, the table holding stored for its
   game: what was done, and the ledger entry if a bet was placed. *)
Iteration(args, row, stored, bankroll_before) ==
    IF row.idx < args.min_games
    THEN [action |-> "warmup", row |-> row]
    ELSE
    LET odds_records == ClosingFilter(stored, row.game_id)
    IN  IF odds_records = <<>>
        THEN [action |-> "no_odds", row |-> row, stored |-> stored]
        ELSE
        LET odds == odds_records[1]
            home_edge == compute_edge_from_american(
                             row.p_home, odds.home_ml, odds.away_ml, "home")
            away_edge == compute_edge_from_american(
                             row.p_away, odds.home_ml, odds.away_ml, "away")
            side == best_side(home_edge, away_edge, args.ev_threshold)
        IN  IF side = "None"
            THEN [action |-> "no_bet", row |-> row, stored |-> stored,
                  odds |-> odds, home_ev |-> home_edge.ev,
                  away_ev |-> away_edge.ev, best_side |-> side]
            ELSE [action |-> "bet", row |-> row, stored |-> stored,
                  odds |-> odds, home_ev |-> home_edge.ev,
                  away_ev |-> away_edge.ev, best_side |-> side,
                  bet |-> Bet(args, row, odds, side,
                              IF side = "home" THEN home_edge
                              ELSE away_edge,
                              bankroll_before)]

running_max_from_zero(cumulative) ==
    [i \in DOMAIN cumulative |->
        CHOOSE m \in {0} \cup {cumulative[j] : j \in 1..i} :
            \A j \in 1..i : cumulative[j] <= m /\ 0 <= m]

(* np.maximum.accumulate *)
running_max(cumulative) ==
    [i \in DOMAIN cumulative |->
        CHOOSE m \in {cumulative[j] : j \in 1..i} :
            \A j \in 1..i : cumulative[j] <= m]

win_rate_as_fraction(ledger) ==
    Quot(Cardinality({i \in DOMAIN ledger : ledger[i].won}), Len(ledger))

(* bets_df['won'].mean() * 100, for a ledger that is not empty. *)
win_rate(ledger) ==
    Quot(Cardinality({i \in DOMAIN ledger : ledger[i].won}) * 100,
         Len(ledger))

(* The metrics computed from the frame of the ledger; a frame made from an
   empty list has no column to select.  total_staked is in units,
   total_profit, max_drawdown and final_bankroll in 1/MoneyScale, roi and
   win_rate are quotients in percent. *)
Metrics(ledger, stake_size, final_bankroll) ==
    IF ledger = <<>>
    THEN [raised |-> "KeyError"]
    ELSE
    LET total_bets == Len(ledger)
        total_staked == total_bets * stake_size
        total_profit == SeqSum([i \in DOMAIN ledger |-> ledger[i].profit])
        cumulative == [i \in DOMAIN ledger |-> ledger[i].bankroll]
        peak == running_max(cumulative)
        drawdown == [i \in DOMAIN ledger |-> peak[i] - cumulative[i]]
    IN  [raised |-> "none",
         total_bets |-> total_bets,
         total_staked |-> total_staked,
         total_profit |-> total_profit,
         roi |-> IF total_staked > 0
                 THEN Quot(total_profit * 100, total_staked * MoneyScale)
                 ELSE <<0, 1>>,
         win_rate |-> win_rate(ledger),
         max_drawdown |->
             CHOOSE d \in {drawdown[i] : i \in DOMAIN ledger} :
                 \A i \in DOMAIN ledger : drawdown[i] <= d,
         final_bankroll |-> final_bankroll,
         bets |-> ledger,
         avg_ev |-> Quot(SeqSum([i \in DOMAIN ledger |-> ledger[i].ev]),
                         total_bets),
         avg_edge |->
             QDiv(QSum([i \in DOMAIN ledger |-> ledger[i].edge_pct]),
                  <<total_bets, 1>>)]

ResultWithoutEmptyCase(ledger, stake_size, final_bankroll) ==
    Metrics(ledger, stake_size, final_bankroll)

(* What run_backtest returns after the loop. *)
Result(ledger, stake_size, final_bankroll) ==
    IF ledger = <<>>
    THEN [raised |-> "none", total_bets |-> 0, total_staked |-> 0,
          total_profit |-> 0, roi |-> <<0, 1>>, win_rate |-> <<0, 1>>,
          max_drawdown |-> 0, final_bankroll |-> 0]
    ELSE Metrics(ledger, stake_size, final_bankroll)

InitBacktest ==
    /\ EloIdle
    /\ FeatIdle
    /\ IsoIdle
    /\ LiveIdle
    /\ MathIdle
    /\ PropsIdle
    /\ LeagueIdle
    /\ FitIdle
    /\ bt_n = 0
    /\ bets = <<>>
    /\ bankroll = <<>>
    /\ current_bankroll = 0
    /\ bt_last = [action |-> "none"]
    /\ bt_ret = [returned |-> FALSE]
    /\ closing_ret = [called |-> FALSE]
    /\ \/ bt_pc = "loop" /\ bt_args \in BtCalls
       \/ /\ bt_pc = "closing"
          /\ bt_args = [ev_threshold |-> 0, stake_size |-> 0, min_games |-> 0,
                     index_start |-> 0]

(* One iteration of the loop of run_backtest, over the next row. *)
BacktestRow ==
    /\ bt_pc = "loop"
    /\ bt_n < MaxRows
    /\ \E stored \in Stores(bt_n + 1) :
        \E row \in BtRows(bt_args.index_start, bt_n) :
            bt_last' = Iteration(bt_args, row, stored, current_bankroll)
    /\ bets' = IF bt_last'.action = "bet" THEN Append(bets, bt_last'.bet)
               ELSE bets
    /\ current_bankroll' =
           IF bt_last'.action = "bet" THEN bt_last'.bet.bankroll
           ELSE current_bankroll
    /\ bankroll' =
           IF bt_last'.action \in {"bet", "no_bet"}
           THEN Append(bankroll, current_bankroll')
           ELSE bankroll
    /\ bt_n' = bt_n + 1
    /\ UNCHANGED <<bt_args, bt_pc, bt_ret, closing_ret, notBt>>

(* The frame has no more rows: the metrics are computed and returned. *)
BacktestReturn ==
    /\ bt_pc = "loop"
    /\ bt_ret' = [returned |-> TRUE] @@
                 Result(bets, bt_args.stake_size, current_bankroll)
    /\ bt_pc' = "done"
    /\ UNCHANGED <<bt_args, bt_n, bets, bankroll, current_bankroll, bt_last,
                   closing_ret, notBt>>

(* A call of get_closing_odds for a game. *)
CallGetClosingOdds ==
    /\ bt_pc = "closing"
    /\ \E stored \in Stores(1) :
        \E val \in get_closing_odds(1, stored) :
            closing_ret' = [called |-> TRUE, game_id |-> 1,
                            stored |-> stored, val |-> val]
    /\ UNCHANGED <<bt_args, bt_pc, bt_n, bets, bankroll, current_bankroll,
                   bt_last, bt_ret, notBt>>

NextBacktest == BacktestRow \/ BacktestReturn \/ CallGetClosingOdds

SpecBacktest == InitBacktest /\ [][NextBacktest]_vars

----------------------------------------------------------------------------
(* Properties of run_backtest *)

Last(s) == s[Len(s)]

(* The expected value of a unit bet at model probability p on moneyline m,
   p * (decimal odds - 1) - (1 - p), as a quotient. *)
EvAt(p, m) ==
    IF m > 0
    THEN Quot(p * m - (PScale - p) * 100, 100 * PScale)
    ELSE Quot(p * 100 - (PScale - p) * (-m), (-m) * PScale)

Priced == bt_last.action \in {"bet", "no_bet"}

(* C6: for a row that has odds, home is chosen if the home EV is above
   ev_threshold and above the away EV; otherwise away is chosen if the away
   EV is above ev_threshold; otherwise no bet is placed.  With equal EVs
   above the threshold the choice is away. *)
C6_SelectionRule ==
    Priced =>
        LET home_ev == EvAt(bt_last.row.p_home, bt_last.odds.home_ml)
            away_ev == EvAt(bt_last.row.p_away, bt_last.odds.away_ml)
            thr == Quot(bt_args.ev_threshold, PScale * MoneyScale)
            home == QLess(thr, home_ev) /\ QLess(away_ev, home_ev)
            away == ~home /\ QLess(thr, away_ev)
        IN  /\ home => bt_last.best_side = "home"
            /\ away => bt_last.best_side = "away"
            /\ (~home /\ ~away) => bt_last.best_side = "None"
            /\ (home_ev = away_ev /\ QLess(thr, home_ev))
                   => bt_last.best_side = "away"
            /\ (bt_last.action = "bet") = (bt_last.best_side # "None")
            /\ bt_last.action = "bet"
                   => Last(bets).side = bt_last.best_side

(* A row priced with equal EVs above the threshold, bet on away. *)
C6_Witness ==
    /\ bt_last.action = "bet"
    /\ bt_last.home_ev = bt_last.away_ev
    /\ bt_last.home_ev > bt_args.ev_threshold
    /\ Last(bets).side = "away"

(* The profit of ledger entry e on a row whose outcome is winner: the stake
   times the chosen side's payout per unit if the outcome is the side, and
   the stake lost otherwise. *)
PaysAsQuoted(e, winner) ==
    IF winner = e.side
    THEN IF e.odds > 0
         THEN e.profit * 100 = e.stake * e.odds * MoneyScale
         ELSE e.profit * (-e.odds) = e.stake * 100 * MoneyScale
    ELSE e.profit = -(e.stake * MoneyScale)

C7_Step ==
    (bt_n' = bt_n + 1) =>
        IF bt_last'.action = "bet"
        THEN /\ Len(bets') = Len(bets) + 1
             /\ SubSeq(bets', 1, Len(bets)) = bets
             /\ LET e == Last(bets')
                IN  /\ current_bankroll' = current_bankroll + e.profit
                    /\ e.bankroll = current_bankroll'
                    /\ e.stake = bt_args.stake_size
                    /\ e.side = bt_last'.best_side
                    /\ e.odds = IF e.side = "home"
                                THEN bt_last'.odds.home_ml
                                ELSE bt_last'.odds.away_ml
                    /\ e.won = (bt_last'.row.winner = e.side)
                    /\ PaysAsQuoted(e, bt_last'.row.winner)
        ELSE bets' = bets /\ current_bankroll' = current_bankroll

(* C7: each bet placed appends exactly one ledger entry and moves the
   running bankroll by exactly that entry's profit, which is
   stake_size * (decimal odds of the chosen side - 1) if the row's outcome
   is the chosen side and -stake_size otherwise; a draw loses on either
   side. *)
C7_LedgerAndProfit == [][C7_Step]_vars

(* A second bet placed on a row that ended in a draw, and lost. *)
C7_Witness ==
    /\ bt_last.action = "bet"
    /\ bt_last.row.winner = "draw"
    /\ Len(bets) = 2
    /\ Last(bets).profit = -(bt_args.stake_size * MoneyScale)
    /\ current_bankroll = bets[1].bankroll + Last(bets).profit

(* The bankroll values recorded at the placed bets. *)
Recorded == {bets[i].bankroll : i \in DOMAIN bets}

SetMax(S) == CHOOSE m \in S : \A x \in S : x <= m
SetMin(S) == CHOOSE m \in S : \A x \in S : m <= x

(* C8 as stated: max_drawdown is >= 0 and <= the peak bankroll value
   reached during the run, the bankroll of 0 before the first bet
   included. *)
C8_DrawdownWithinPeak ==
    (bt_ret.returned /\ bets # <<>>) =>
        /\ bt_ret.max_drawdown >= 0
        /\ bt_ret.max_drawdown <= SetMax(Recorded \cup {0})

(* C8: for every sequence of placed bets, max_drawdown is >= 0 and <= the
   highest bankroll recorded at a placed bet minus the lowest one. *)
C8_DrawdownWithinRange ==
    bt_ret.returned =>
        /\ bt_ret.max_drawdown >= 0
        /\ bets # <<>> =>
               bt_ret.max_drawdown <= SetMax(Recorded) - SetMin(Recorded)

(* A run of two bets that returned a drawdown. *)
C8_Witness ==
    /\ bt_ret.returned
    /\ Len(bets) = 2
    /\ bt_ret.max_drawdown > 0
    /\ bt_ret.max_drawdown = bets[1].bankroll - bets[2].bankroll

(* C9: when no row qualifies for a bet (no rows, rows in warm-up, rows
   without odds, rows priced below the threshold), run_backtest raises
   nothing and returns total_bets, total_staked, total_profit, roi,
   win_rate, max_drawdown and final_bankroll all 0. *)
C9_NoBetsAllZero ==
    (bt_ret.returned /\ bets = <<>>) =>
        /\ bt_ret.raised = "none"
        /\ bt_ret.total_bets = 0
        /\ bt_ret.total_staked = 0
        /\ bt_ret.total_profit = 0
        /\ bt_ret.roi = <<0, 1>>
        /\ bt_ret.win_rate = <<0, 1>>
        /\ bt_ret.max_drawdown = 0
        /\ bt_ret.final_bankroll = 0

(* A run over rows, the last one past the warm-up and without odds, that
   returned with no bet placed. *)
C9_Witness ==
    /\ bt_ret.returned
    /\ bets = <<>>
    /\ bt_n = MaxRows
    /\ bt_last.action = "no_odds"

(* The closing rows of a game never have a later timestamp than quote. *)
IsLatest(quote, stored, game_id) ==
    LET found == ClosingFilter(stored, game_id)
    IN  \A i \in DOMAIN found : found[i].timestamp <= quote.timestamp

C10_BacktestUsesLatest ==
    Priced => IsLatest(bt_last.odds, bt_last.stored, bt_last.row.game_id)

C10_GetClosingOddsLatest ==
    closing_ret.called =>
        IF ClosingFilter(closing_ret.stored, closing_ret.game_id) = <<>>
        THEN closing_ret.val = None
        ELSE /\ closing_ret.val # None
             /\ IsLatest(closing_ret.val, closing_ret.stored,
                         closing_ret.game_id)

(* C10: when a game has several closing quotes, the quote used to price it
   is the one with the latest timestamp, whatever order the store returns
   them in, in the backtest as in get_closing_odds. *)
C10_LatestClosingQuoteUsed ==
    C10_BacktestUsesLatest /\ C10_GetClosingOddsLatest

(* A game with an older and a newer closing quote, priced by the
   backtest. *)
C10_Witness ==
    /\ Priced
    /\ Len(ClosingFilter(bt_last.stored, bt_last.row.game_id)) = 2
    /\ bt_last.stored[1].timestamp # bt_last.stored[2].timestamp

(* No row that stored holds for the game is a closing quote. *)
NoClosingQuote(stored, game_id) ==
    \A i \in DOMAIN stored :
        stored[i].game_id # game_id \/ stored[i].source # "closing"

C11_Step ==
    (/\ bt_n' = bt_n + 1
     /\ bt_last'.action # "warmup"
     /\ NoClosingQuote(bt_last'.stored, bt_last'.row.game_id))
        => /\ bt_last'.action = "no_odds"
           /\ bets' = bets
           /\ current_bankroll' = current_bankroll
           /\ bt_pc' = "loop"
           /\ bt_ret' = bt_ret

(* C11: a row past the warm-up for which the table holds no closing quote
   is skipped: no ledger entry is appended, the running bankroll is
   unchanged, nothing is raised or returned, and the loop goes on. *)
C11_NoOddsRowSkipped == [][C11_Step]_vars

(* A first row skipped for want of a closing quote (the call has no
   warm-up, and neither the ledger nor the bankroll list has an entry for
   it), followed by a row that was bet. *)
C11_Witness ==
    /\ bt_args.min_games = 0
    /\ bt_n = 2
    /\ bt_last.action = "bet"
    /\ Len(bets) = 1
    /\ Len(bankroll) = 1
    /\ bets[1].game_id = 2

(* The last row iterated was at position bt_n - 1 of the frame (from 0). *)
WarmupByPosition ==
    bt_last.action # "none" =>
        ((bt_last.action = "warmup") = (bt_n - 1 < bt_args.min_games))

(* C12: with min_games = n the warm-up excludes exactly the first n rows in
   iteration order, whatever labels the rows carry: a row at position n or
   later is not excluded by the warm-up and a row before position n
   produces no bet. *)
C12_WarmupIsFirstRows == WarmupByPosition

(* The same on the frames whose index is the RangeIndex from 0. *)
C12_WarmupOnRangeIndex == bt_args.index_start = 0 => WarmupByPosition

(* The first row of a frame whose labels start at 1, iterated with a
   warm-up of one row. *)
C12_Witness ==
    /\ bt_args.min_games = 1
    /\ bt_args.index_start = 1
    /\ bt_n = 1
    /\ bt_last.action # "none"

Wins == Cardinality({i \in DOMAIN bets : bets[i].won})

(* C13 as stated: the win rate returned is wins / total_bets, a fraction
   between 0 and 1, and 0 when no bet was placed. *)
C13_WinRateIsFraction ==
    bt_ret.returned =>
        IF bets = <<>>
        THEN bt_ret.win_rate = <<0, 1>>
        ELSE /\ bt_ret.win_rate[1] * Len(bets) = Wins * bt_ret.win_rate[2]
             /\ QLeq(<<0, 1>>, bt_ret.win_rate)
             /\ QLeq(bt_ret.win_rate, <<1, 1>>)

(* C13: the win rate returned is 100 * wins / total_bets, a percentage
   between 0 and 100, and 0 when no bet was placed. *)
C13_WinRateIsPercentage ==
    bt_ret.returned =>
        IF bets = <<>>
        THEN bt_ret.win_rate = <<0, 1>>
        ELSE /\ bt_ret.win_rate[1] * Len(bets)
                    = 100 * Wins * bt_ret.win_rate[2]
             /\ QLeq(<<0, 1>>, bt_ret.win_rate)
             /\ QLeq(bt_ret.win_rate, <<100, 1>>)

(* A run of two bets, one won and one lost: the win rate is 50. *)
C13_Witness ==
    /\ bt_ret.returned
    /\ Len(bets) = 2
    /\ Wins = 1
    /\ bt_ret.win_rate = <<50, 1>>

----------------------------------------------------------------------------
(* Calls of the market math (src/edge/odds_math.py) and of the live path's
   normalizations (src/scripts/live_games.py) *)

kelly_fraction_without_edge_test(p_true, decimal_odds, fraction) ==
    LET unit == <<1, 1>>
        edge == QSub(QMul(p_true, decimal_odds), unit)
    IN  IF decimal_odds = unit
        THEN <<0, 1>>
        ELSE QMax(<<0, 1>>,
                  QMul(QDiv(edge, QSub(decimal_odds, unit)), fraction))

(* kelly_fraction; its arguments and its result are quotients. *)
kelly_fraction(p_true, decimal_odds, fraction) ==
    LET unit == <<1, 1>>
        edge == QSub(QMul(p_true, decimal_odds), unit)
    IN  IF QLeq(edge, <<0, 1>>)
        THEN <<0, 1>>
        ELSE QMax(<<0, 1>>,
                  QMul(QDiv(edge, QSub(decimal_odds, unit)), fraction))

(* 1e-6 *)
NORMALIZE_FLOOR == <<1, 1000000>>

(* _normalize_probs *)
normalize_probs(home, draw, away) ==
    LET total == QMax(QAdd(QAdd(home, draw), away), NORMALIZE_FLOOR)
    IN  <<QDiv(home, total), QDiv(draw, total), QDiv(away, total)>>

(* The sum of the values of a dictionary of quotients. *)
RECURSIVE DictSum(_)
DictSum(d) ==
    IF DOMAIN d = {}
    THEN <<0, 1>>
    ELSE LET name == CHOOSE n \in DOMAIN d : TRUE
         IN  QAdd(d[name],
                  DictSum([n \in DOMAIN d \ {name} |-> d[n]]))

(* The dictionary implied of _compute_market_probs: the entries whose price
   is None are left out and the name tie becomes Draw.  odds is a
   dictionary from names to prices, Num(n) or None. *)
Implied(odds) ==
    LET Renamed(name) == IF name = "Tie" THEN "Draw" ELSE name
        kept == {name \in DOMAIN odds : odds[name] # None}
        Source(n) == CHOOSE name \in kept : Renamed(name) = n
    IN  [n \in {Renamed(name) : name \in kept} |->
            LET price == odds[Source(n)].v
            IN  IF price < 0
                THEN Quot(-price, -price + 100)
                ELSE Quot(100, price + 100)]

(* _compute_market_probs *)
compute_market_probs(odds) ==
    LET implied == Implied(odds)
        sum == DictSum(implied)
        total == IF sum[1] = 0 THEN <<1, 1>> ELSE sum
    IN  [name \in DOMAIN implied |-> QDiv(implied[name], total)]

(* The raw probabilities passed to de_vig: implied probabilities of
   moneylines, and floats no moneyline gives (zero, a negative). *)
RawProbs == {<<-1, 4>>, <<0, 1>>, <<1, 4>>, <<2, 5>>, <<11, 21>>, <<1, 2>>,
             <<2, 3>>}

KellyProbs == {<<0, 1>>, <<1, 4>>, <<1, 2>>, <<11, 20>>, <<1, 1>>}
KellyOdds == {<<1, 2>>, <<1, 1>>, <<3, 2>>, <<21, 11>>, <<2, 1>>, <<3, 1>>}
KellyFractions == {<<1, 1>>, <<1, 4>>}

ModelShares == {<<0, 1>>, <<1, 4000000>>, <<1, 4>>, <<1, 2>>}

(* The dictionaries of prices of a game: none, two-way, three-way. *)
PriceDicts ==
    UNION {[names -> {Num(-110), Num(200), None}] :
             names \in {{}, {"A", "B"}, {"A", "B", "Tie"}}}

InitMarket ==
    /\ EloIdle
    /\ FeatIdle
    /\ IsoIdle
    /\ LiveIdle
    /\ BtIdle
    /\ MathIdle
    /\ PropsIdle
    /\ LeagueIdle
    /\ FitIdle

CallDeVig ==
    /\ \E p_home_raw \in RawProbs, p_away_raw \in RawProbs :
        math_ret' = [op |-> "de_vig", p_home_raw |-> p_home_raw,
                     p_away_raw |-> p_away_raw,
                     val |-> de_vig(p_home_raw, p_away_raw)]
    /\ UNCHANGED notMath

CallKellyFraction ==
    /\ \E p_true \in KellyProbs, decimal_odds \in KellyOdds,
          fraction \in KellyFractions :
        math_ret' = [op |-> "kelly_fraction", p_true |-> p_true,
                     decimal_odds |-> decimal_odds, fraction |-> fraction,
                     val |-> kelly_fraction(p_true, decimal_odds, fraction)]
    /\ UNCHANGED notMath

CallNormalizeProbs ==
    /\ \E home \in ModelShares, draw \in ModelShares, away \in ModelShares :
        math_ret' = [op |-> "_normalize_probs", home |-> home,
                     draw |-> draw, away |-> away,
                     val |-> normalize_probs(home, draw, away)]
    /\ UNCHANGED notMath

CallComputeMarketProbs ==
    /\ \E odds \in PriceDicts :
        math_ret' = [op |-> "_compute_market_probs", odds |-> odds,
                     implied |-> Implied(odds),
                     val |-> compute_market_probs(odds)]
    /\ UNCHANGED notMath

NextMarket ==
    \/ CallDeVig
    \/ CallKellyFraction
    \/ CallNormalizeProbs
    \/ CallComputeMarketProbs

SpecMarket == InitMarket /\ [][NextMarket]_vars

(* The sum of the implied probabilities of the market the last call
   de-vigged. *)
MarketSum ==
    IF math_ret.op = "de_vig"
    THEN QAdd(math_ret.p_home_raw, math_ret.p_away_raw)
    ELSE DictSum(math_ret.implied)

(* The last call failed to its caller; of the de-vig paths only de_vig has
   a raise. *)
Failed == math_ret.op = "de_vig" /\ math_ret.val.raised # "none"

(* C14: de-vigging a market whose implied probabilities sum to zero or less
   fails to the caller: neither de_vig nor _compute_market_probs returns
   probabilities for it or divides by a substitute. *)
C14_InvalidMarketFails ==
    (/\ math_ret.op \in {"de_vig", "_compute_market_probs"}
     /\ QLeq(MarketSum, <<0, 1>>))
        => Failed

(* de_vig does fail when the sum is exactly zero. *)
C14_ZeroSumRaises ==
    (/\ math_ret.op = "de_vig"
     /\ QAdd(math_ret.p_home_raw, math_ret.p_away_raw) = <<0, 1>>)
        => math_ret.val.raised = "ValueError"

(* de_vig called on raw probabilities of negative sum. *)
C14_Witness ==
    /\ math_ret.op = "de_vig"
    /\ QLess(QAdd(math_ret.p_home_raw, math_ret.p_away_raw), <<0, 1>>)

(* _compute_market_probs, given no price, divides by 1.0 and returns an
   empty dictionary. *)
C14_NoPriceNoProbabilities ==
    (math_ret.op = "_compute_market_probs" /\ MarketSum = <<0, 1>>)
        => DOMAIN math_ret.val = {}

(* C15: for every market whose implied probabilities have a positive sum,
   two-way (de_vig) or two- or three-way (_compute_market_probs), the
   de-vigged probabilities sum to 1 and keep the ratios of the inputs:
   out_i * in_j = out_j * in_i for all sides i, j. *)
C15_DeVigSumsToOne ==
    /\ (math_ret.op = "de_vig" /\ QLess(<<0, 1>>, MarketSum)) =>
           /\ math_ret.val.raised = "none"
           /\ QAdd(math_ret.val.p_home_fair, math_ret.val.p_away_fair)
                  = <<1, 1>>
           /\ QMul(math_ret.val.p_home_fair, math_ret.p_away_raw)
                  = QMul(math_ret.val.p_away_fair, math_ret.p_home_raw)
    /\ (/\ math_ret.op = "_compute_market_probs"
        /\ QLess(<<0, 1>>, MarketSum)) =>
           /\ DOMAIN math_ret.val = DOMAIN math_ret.implied
           /\ DictSum(math_ret.val) = <<1, 1>>
           /\ \A i \in DOMAIN math_ret.val, j \in DOMAIN math_ret.val :
                  QMul(math_ret.val[i], math_ret.implied[j])
                      = QMul(math_ret.val[j], math_ret.implied[i])

(* A three-way market with vig, priced -110, +200 and -110, de-vigged. *)
C15_Witness ==
    /\ math_ret.op = "_compute_market_probs"
    /\ DOMAIN math_ret.val = {"A", "B", "Draw"}
    /\ QLess(<<1, 1>>, MarketSum)
    /\ math_ret.val["Draw"] = math_ret.val["A"]
    /\ QLess(math_ret.val["B"], math_ret.val["A"])

(* _normalize_probs, the normalization of the model's probabilities,
   divides by the sum when it is at least 1e-6 and by 1e-6 below that. *)
C15_NormalizeProbsFloor ==
    math_ret.op = "_normalize_probs" =>
        LET sum == QAdd(QAdd(math_ret.home, math_ret.draw), math_ret.away)
            out == QAdd(QAdd(math_ret.val[1], math_ret.val[2]),
                        math_ret.val[3])
        IN  IF QLeq(NORMALIZE_FLOOR, sum)
            THEN out = <<1, 1>>
            ELSE out = QDiv(sum, NORMALIZE_FLOOR) /\ QLess(out, <<1, 1>>)

KellyCall == math_ret.op = "kelly_fraction" /\ math_ret.fraction = <<1, 1>>

(* p * d <= 1 *)
NoEdge == QLeq(QMul(math_ret.p_true, math_ret.decimal_odds), <<1, 1>>)

(* C16 as stated: with the default multiplier, kelly_fraction(p, d) is 0
   whenever p * d <= 1 and strictly between 0 and 1 whenever p * d > 1. *)
C16_KellyBelowOne ==
    KellyCall =>
        IF NoEdge
        THEN math_ret.val = <<0, 1>>
        ELSE QLess(<<0, 1>>, math_ret.val) /\ QLess(math_ret.val, <<1, 1>>)

(* C16: with the default multiplier, kelly_fraction(p, d) is 0 whenever
   p * d <= 1, and whenever p * d > 1 it is strictly positive and at most
   1, strictly less than 1 unless p = 1. *)
C16_KellyAtMostOne ==
    KellyCall =>
        IF NoEdge
        THEN math_ret.val = <<0, 1>>
        ELSE /\ QLess(<<0, 1>>, math_ret.val)
             /\ QLeq(math_ret.val, <<1, 1>>)
             /\ (math_ret.val = <<1, 1>>) = (math_ret.p_true = <<1, 1>>)

(* kelly_fraction(0.55, 2.0) = 0.1 *)
C16_Witness ==
    /\ KellyCall
    /\ math_ret.p_true = <<11, 20>>
    /\ math_ret.decimal_odds = <<2, 1>>
    /\ math_ret.val = <<1, 10>>

----------------------------------------------------------------------------
(* PropsAnalyzer.analyze_prop (src/props/analyzer.py) and outcome_metrics
   (src/scripts/live_games.py).  Probabilities, odds, stakes and thresholds
   are quotients. *)

Zero == <<0, 1>>
One == <<1, 1>>

(* american_to_decimal, as a quotient *)
DecimalOf(american_odds) == Quot(american_to_decimal(american_odds), MoneyScale)

(* expected_value, on quotients *)
ExpectedValue(p_true, decimal_odds) ==
    QSub(QMul(p_true, QSub(decimal_odds, One)), QSub(One, p_true))

(* _get_confidence *)
get_confidence(edge, ev, sample_size) ==
    LET by_edge == IF QLess(<<15, 1>>, edge) THEN 3
                   ELSE IF QLess(<<10, 1>>, edge) THEN 2
                   ELSE IF QLess(<<5, 1>>, edge) THEN 1 ELSE 0
        by_ev == IF QLess(<<10, 100>>, ev) THEN 3
                 ELSE IF QLess(<<6, 100>>, ev) THEN 2
                 ELSE IF QLess(<<3, 100>>, ev) THEN 1 ELSE 0
        by_sample == IF sample_size >= 30 THEN 2
                     ELSE IF sample_size >= 15 THEN 1 ELSE 0
        score == by_edge + by_ev + by_sample
    IN  IF score >= 6 THEN "high"
        ELSE IF score >= 3 THEN "medium" ELSE "low"

Recommendation_without_min_games(cfg, games_played, edge_pct, ev_over, ev_under) ==
    IF QLess(Zero, ev_over) /\ QLeq(cfg.edge_threshold, edge_pct)
    THEN [recommended_side |-> "over",
          confidence |-> get_confidence(edge_pct, ev_over, games_played)]
    ELSE IF QLess(Zero, ev_under)
            /\ QLeq(cfg.edge_threshold, QNeg(edge_pct))
    THEN [recommended_side |-> "under",
          confidence |-> get_confidence(QNeg(edge_pct), ev_under,
                                        games_played)]
    ELSE [recommended_side |-> "None", confidence |-> "low"]

(* The recommendation of analyze_prop: recommended_side and confidence. *)
Recommendation(cfg, games_played, edge_pct, ev_over, ev_under) ==
    IF games_played >= cfg.min_games
    THEN IF QLess(Zero, ev_over) /\ QLeq(cfg.edge_threshold, edge_pct)
         THEN [recommended_side |-> "over",
               confidence |-> get_confidence(edge_pct, ev_over,
                                             games_played)]
         ELSE IF QLess(Zero, ev_under)
                 /\ QLeq(cfg.edge_threshold, QNeg(edge_pct))
         THEN [recommended_side |-> "under",
               confidence |-> get_confidence(QNeg(edge_pct), ev_under,
                                             games_played)]
         ELSE [recommended_side |-> "None", confidence |-> "low"]
    ELSE [recommended_side |-> "None", confidence |-> "low"]

(* max(0.0, min(kelly * kelly_mult, max_stake)) *)
StakeFraction(kelly, kelly_mult, max_stake) ==
    QMax(Zero, QMin(QMul(kelly, kelly_mult), max_stake))

(* The Kelly fraction analyze_prop computes in line. *)
PropKelly(prob, decimal) ==
    IF QLess(One, decimal)
    THEN QMax(Zero, QDiv(QSub(QMul(prob, decimal), One),
                         QSub(decimal, One)))
    ELSE Zero

(* analyze_prop from the de-vig on; model_prob_over is what
   _calculate_model_prob returned and games_played the number of the
   player's game logs. *)
analyze_prop(cfg, over_odds, under_odds, games_played, model_prob_over) ==
    LET market_prob_over == american_to_implied_prob(over_odds)
        market_prob_under == american_to_implied_prob(under_odds)
        total == QAdd(market_prob_over, market_prob_under)
        market_prob_over_fair == QDiv(market_prob_over, total)
        w == QMax(Zero, QMin(One, cfg.shrink_weight))
        model_prob_over_adj ==
            QAdd(QMul(w, model_prob_over),
                 QMul(QSub(One, w), market_prob_over_fair))
        edge_pct == QMul(QSub(model_prob_over_adj, market_prob_over_fair),
                         <<100, 1>>)
        decimal_over == DecimalOf(over_odds)
        decimal_under == DecimalOf(under_odds)
        ev_over == ExpectedValue(model_prob_over_adj, decimal_over)
        ev_under == ExpectedValue(QSub(One, model_prob_over_adj),
                                  decimal_under)
        stake_frac_over ==
            StakeFraction(PropKelly(model_prob_over_adj, decimal_over),
                          cfg.kelly_mult, cfg.max_stake)
        stake_frac_under ==
            StakeFraction(PropKelly(QSub(One, model_prob_over_adj),
                                    decimal_under),
                          cfg.kelly_mult, cfg.max_stake)
        rec == Recommendation(cfg, games_played, edge_pct, ev_over,
                              ev_under)
    IN  [w |-> w,
         model_prob_over |-> model_prob_over_adj,
         market_prob_over |-> market_prob_over_fair,
         edge_pct |-> edge_pct,
         ev_over |-> ev_over,
         ev_under |-> ev_under,
         decimal_over |-> decimal_over,
         decimal_under |-> decimal_under,
         stake_frac_over |-> stake_frac_over,
         stake_frac_under |-> stake_frac_under,
         stake_dollars_over |-> QMul(stake_frac_over, cfg.bankroll),
         stake_dollars_under |-> QMul(stake_frac_under, cfg.bankroll),
         recommended_side |-> rec.recommended_side,
         confidence |-> rec.confidence,
         sample_size |-> games_played]

(* kelly_fraction of _build_predictions *)
LiveKelly(prob, decimal_odds) ==
    LET edge == QSub(QMul(prob, decimal_odds), One)
    IN  IF QLeq(edge, Zero) THEN Zero
        ELSE QDiv(edge, QSub(decimal_odds, One))

(* outcome_metrics; price is Num(n) or None, market_prob is
   market_probs.get(outcome_name, 0.0). *)
outcome_metrics(cfg, outcome_prob, price, market_prob) ==
    IF price = None
    THEN [w |-> None, decimal |-> Zero, market_prob |-> market_prob,
          p_adj |-> Zero, edge |-> Zero, ev |-> <<-1, 1>>,
          stake_frac |-> Zero, stake_dollars |-> Zero]
    ELSE
    LET decimal == DecimalOf(price.v)
        w == QMax(Zero, QMin(One, cfg.shrink_weight))
        p_adj == QAdd(QMul(w, outcome_prob),
                      QMul(QSub(One, w), market_prob))
        stake_frac == StakeFraction(LiveKelly(p_adj, decimal),
                                    cfg.kelly_mult, cfg.max_stake)
    IN  [w |-> w, decimal |-> decimal, market_prob |-> market_prob,
         p_adj |-> p_adj,
         edge |-> QMul(QSub(p_adj, market_prob), <<100, 1>>),
         ev |-> QSub(QMul(p_adj, decimal), One),
         stake_frac |-> stake_frac,
         stake_dollars |-> QMul(stake_frac, cfg.bankroll)]

(* max(e.ev_over, e.ev_under), the sort key of get_best_edges *)
BestEv(e) == QMax(e.ev_over, e.ev_under)

QAbs(x) == <<Abs(x[1]), x[2]>>

(* The filter of get_best_edges. *)
Qualified(cfg, e, min_edge, min_ev) ==
    /\ e.recommended_side # "None"
    /\ QLeq(min_edge, QAbs(e.edge_pct))
    /\ QLeq(min_ev, BestEv(e))
    /\ e.sample_size >= cfg.min_games

(* qualified.sort(key=..., reverse=True): stable, the larger key first. *)
RECURSIVE InsertByBestEv(_, _)
InsertByBestEv(sorted, e) ==
    IF sorted = <<>> THEN <<e>>
    ELSE IF QLeq(BestEv(e), BestEv(Head(sorted)))
    THEN <<Head(sorted)>> \o InsertByBestEv(Tail(sorted), e)
    ELSE <<e>> \o sorted

RECURSIVE SortedByBestEv(_)
SortedByBestEv(edges) ==
    IF edges = <<>> THEN <<>>
    ELSE InsertByBestEv(SortedByBestEv(SubSeq(edges, 1, Len(edges) - 1)),
                        edges[Len(edges)])

(* The qualified edges left in the order of the caller's list. *)
get_best_edges_unsorted(cfg, edges, min_edge, min_ev, top_n) ==
    LET qualified == SelectSeq(edges,
                               LAMBDA e : Qualified(cfg, e, min_edge, min_ev))
    IN  SubSeq(qualified, 1, Min(top_n, Len(qualified)))

(* get_best_edges, top_n >= 0 *)
get_best_edges(cfg, edges, min_edge, min_ev, top_n) ==
    LET qualified == SortedByBestEv(
            SelectSeq(edges, LAMBDA e : Qualified(cfg, e, min_edge, min_ev)))
    IN  SubSeq(qualified, 1, Min(top_n, Len(qualified)))

(* The analyzers constructed: the defaults, two with shrink_weight,
   kelly_mult and max_stake outside [0, 1], and one that asks for one game,
   an edge of 5 points and an EV of 0.10. *)
PropsConfigs ==
    {[kind |-> "analyzer", min_games |-> 5, edge_threshold |-> <<1, 1>>,
      ev_threshold |-> <<3, 100>>, shrink_weight |-> <<7, 10>>,
      kelly_mult |-> <<1, 4>>, max_stake |-> <<1, 50>>,
      bankroll |-> <<1000, 1>>],
     [kind |-> "analyzer", min_games |-> 5, edge_threshold |-> <<1, 1>>,
      ev_threshold |-> <<3, 100>>, shrink_weight |-> <<3, 2>>,
      kelly_mult |-> <<4, 1>>, max_stake |-> <<2, 1>>,
      bankroll |-> <<1000, 1>>],
     [kind |-> "analyzer", min_games |-> 1, edge_threshold |-> <<5, 1>>,
      ev_threshold |-> <<3, 100>>, shrink_weight |-> <<-1, 2>>,
      kelly_mult |-> <<-1, 4>>, max_stake |-> <<-1, 50>>,
      bankroll |-> <<1000, 1>>],
     [kind |-> "analyzer", min_games |-> 1, edge_threshold |-> <<5, 1>>,
      ev_threshold |-> <<1, 10>>, shrink_weight |-> <<7, 10>>,
      kelly_mult |-> <<1, 4>>, max_stake |-> <<1, 50>>,
      bankroll |-> <<1000, 1>>]}

(* CONFIG of the live path: the defaults, and an environment with
   PROB_SHRINK_W, KELLY_MULT and MAX_STAKE outside [0, 1]. *)
LiveConfigs ==
    {[kind |-> "live", min_edge |-> <<2, 1>>, shrink_weight |-> <<7, 10>>,
      kelly_mult |-> <<1, 4>>, max_stake |-> <<1, 50>>,
      bankroll |-> <<1000, 1>>],
     [kind |-> "live", min_edge |-> <<2, 1>>, shrink_weight |-> <<3, 2>>,
      kelly_mult |-> <<4, 1>>, max_stake |-> <<2, 1>>,
      bankroll |-> <<1000, 1>>]}

(* The values _calculate_model_prob returns: it clamps to [0.05, 0.95]. *)
ModelProbsOver == {<<1, 20>>, <<2, 5>>, <<1, 2>>, <<11, 20>>, <<3, 5>>,
                   <<19, 20>>}
PropOdds == {<<-110, -110>>, <<200, -200>>, <<-200, 200>>}
GamesPlayed == {0, 4, 5, 30}

OutcomeProbs == {<<1, 100>>, <<1, 2>>, <<99, 100>>}
MarketProbs == {<<0, 1>>, <<1, 3>>, <<1, 2>>}
LivePrices == {None, Num(-110), Num(200)}

InitProps ==
    /\ EloIdle
    /\ FeatIdle
    /\ IsoIdle
    /\ LiveIdle
    /\ BtIdle
    /\ MathIdle
    /\ LeagueIdle
    /\ FitIdle
    /\ props_cfg \in PropsConfigs \cup LiveConfigs
    /\ props_ret = [op |-> "none"]
    /\ caller_edges = <<>>

AnalyzeProp ==
    /\ props_cfg.kind = "analyzer"
    /\ \E odds \in PropOdds, games_played \in GamesPlayed,
          model_prob_over \in ModelProbsOver :
        props_ret' = [op |-> "analyze_prop", over_odds |-> odds[1],
                      under_odds |-> odds[2],
                      games_played |-> games_played,
                      model_prob |-> model_prob_over,
                      val |-> analyze_prop(props_cfg, odds[1], odds[2],
                                           games_played, model_prob_over)]
    /\ UNCHANGED <<props_cfg, caller_edges, notProps>>

OutcomeMetrics ==
    /\ props_cfg.kind = "live"
    /\ \E outcome_prob \in OutcomeProbs, price \in LivePrices,
          market_prob \in MarketProbs :
        props_ret' = [op |-> "outcome_metrics",
                      outcome_prob |-> outcome_prob, price |-> price,
                      market_prob |-> market_prob,
                      val |-> outcome_metrics(props_cfg, outcome_prob,
                                              price, market_prob)]
    /\ UNCHANGED <<props_cfg, caller_edges, notProps>>

NextProps == AnalyzeProp \/ OutcomeMetrics

SpecProps == InitProps /\ [][NextProps]_vars

(* get_best_edges on the lists a caller holds *)

MaxEdges == 3

(* <<over_odds, under_odds, games_played, model_prob_over>> of the props
   whose edges are ranked. *)
EdgeCases == {<<-110, -110, 30, <<19, 20>>>>, <<-110, -110, 30, <<3, 5>>>>,
              <<-110, -110, 4, <<1, 20>>>>, <<-110, -110, 30, <<11, 20>>>>,
              <<200, -200, 5, <<2, 5>>>>}

(* The PropEdge objects a caller holds: analyzed by this analyzer, or by
   one that asks for a single game. *)
EdgePool(cfg) ==
    {analyze_prop(c, x[1], x[2], x[3], x[4]) :
        c \in {cfg} \cup {k \in PropsConfigs :
                               k.min_games = 1 /\ QLess(Zero, k.shrink_weight)},
        x \in EdgeCases}

RECURSIVE EdgeLists(_, _)
EdgeLists(pool, n) ==
    IF n = 0 THEN {<<>>}
    ELSE {Append(l, e) : l \in EdgeLists(pool, n - 1), e \in pool}

(* <<min_edge, min_ev>>: the defaults, and no minimum. *)
EdgeMinimums == {<<(<<5, 1>>), (<<3, 100>>)>>, <<Zero, Zero>>}
TopNs == {0, 2, 10}

InitEdges ==
    /\ EloIdle
    /\ FeatIdle
    /\ IsoIdle
    /\ LiveIdle
    /\ BtIdle
    /\ MathIdle
    /\ LeagueIdle
    /\ FitIdle
    /\ props_cfg \in PropsConfigs
    /\ props_ret = [op |-> "none"]
    /\ \E n \in 0..MaxEdges :
          caller_edges \in EdgeLists(EdgePool(props_cfg), n)

GetBestEdges ==
    /\ \E mins \in EdgeMinimums, top_n \in TopNs :
          props_ret' = [op |-> "get_best_edges", edges |-> caller_edges,
                        min_edge |-> mins[1], min_ev |-> mins[2],
                        top_n |-> top_n,
                        val |-> get_best_edges(props_cfg, caller_edges,
                                               mins[1], mins[2], top_n)]
    /\ UNCHANGED <<props_cfg, caller_edges, notProps>>

NextEdges == GetBestEdges

SpecEdges == InitEdges /\ [][NextEdges]_vars

InUnit(x) == QLeq(Zero, x) /\ QLeq(x, One)

(* C17: whatever shrink_weight, kelly_mult and max_stake are configured,
   the blend weight applied and the stake fraction of each side are within
   [0, 1], in analyze_prop and in outcome_metrics. *)
C17_WeightAndStakeInUnit ==
    /\ props_ret.op = "analyze_prop" =>
           /\ InUnit(props_ret.val.w)
           /\ InUnit(props_ret.val.stake_frac_over)
           /\ InUnit(props_ret.val.stake_frac_under)
    /\ (props_ret.op = "outcome_metrics" /\ props_ret.price # None) =>
           /\ InUnit(props_ret.val.w)
           /\ InUnit(props_ret.val.stake_frac)

(* The blend weight alone is always within [0, 1], and so is the stake
   fraction whenever max_stake is. *)
C17_WeightInUnit ==
    /\ (props_ret.op = "analyze_prop"
        \/ (props_ret.op = "outcome_metrics" /\ props_ret.price # None))
           => InUnit(props_ret.val.w)
    /\ (props_ret.op = "analyze_prop" /\ QLeq(props_cfg.max_stake, One)) =>
           /\ InUnit(props_ret.val.stake_frac_over)
           /\ InUnit(props_ret.val.stake_frac_under)
    /\ (/\ props_ret.op = "outcome_metrics"
        /\ props_ret.price # None
        /\ QLeq(props_cfg.max_stake, One))
           => InUnit(props_ret.val.stake_frac)

(* analyze_prop on an analyzer configured outside [0, 1]. *)
C17_Witness ==
    /\ props_ret.op = "analyze_prop"
    /\ ~InUnit(props_cfg.shrink_weight)
    /\ ~InUnit(props_cfg.max_stake)
    /\ ~InUnit(props_cfg.kelly_mult)

(* C18: analyze_prop recommends over exactly when games_played >=
   min_games, ev_over > 0 and edge_pct >= edge_threshold; otherwise under
   exactly when games_played >= min_games, ev_under > 0 and -edge_pct >=
   edge_threshold; otherwise recommended_side is None.  With games_played <
   min_games the result has recommended_side None and confidence low. *)
C18_RecommendationRule ==
    props_ret.op = "analyze_prop" =>
        LET r == props_ret.val
            enough == props_ret.games_played >= props_cfg.min_games
            over == /\ enough
                    /\ QLess(Zero, r.ev_over)
                    /\ QLeq(props_cfg.edge_threshold, r.edge_pct)
            under == /\ ~over
                     /\ enough
                     /\ QLess(Zero, r.ev_under)
                     /\ QLeq(props_cfg.edge_threshold, QNeg(r.edge_pct))
        IN  /\ (r.recommended_side = "over") = over
            /\ (r.recommended_side = "under") = under
            /\ (r.recommended_side = "None") = (~over /\ ~under)
            /\ ~enough => r.recommended_side = "None" /\ r.confidence = "low"
            /\ r.sample_size = props_ret.games_played

(* A prop with a positive EV and an edge above the threshold on the over,
   not recommended because the player has too few games. *)
C18_Witness ==
    /\ props_ret.op = "analyze_prop"
    /\ props_ret.games_played < props_cfg.min_games
    /\ QLess(Zero, props_ret.val.ev_over)
    /\ QLeq(props_cfg.edge_threshold, props_ret.val.edge_pct)
    /\ props_ret.val.recommended_side = "None"
    /\ props_ret.val.confidence = "low"

----------------------------------------------------------------------------
(* build_elo_features, the branch with a league column *)

MaxLeagueGames == 3

Leagues == {"NBA", "NHL"}

(* <<home_team, away_team, home_score, away_score>> of a row with a league:
   a home win, and a game not yet played. *)
LeagueMatches == {<<"A", "B", Num(2), Num(1)>>, <<"B", "A", None, Num(1)>>}

(* The rows of a frame with a league column and no winner column; the same
   team names occur in every league. *)
LeagueRows(id) ==
    {[game_id |-> id, date |-> d, league |-> l, home_team |-> m[1],
      away_team |-> m[2], home_score |-> m[3], away_score |-> m[4]] :
        d \in Dates, l \in Leagues, m \in LeagueMatches}

RECURSIVE LeagueFrames(_)
LeagueFrames(n) ==
    IF n = 0 THEN {<<>>}
    ELSE {Append(f, r) : f \in LeagueFrames(n - 1), r \in LeagueRows(n)}

(* elo_systems[league], created empty when the league is seen first. *)
SystemOf(systems, league) ==
    IF league \in DOMAIN systems THEN systems[league] ELSE <<>>

(* One book that every league's entry refers to. *)
SystemsAfterSharingOneBook(systems, init, k, adv, game) ==
    [l \in DOMAIN systems \cup {game.league} |->
        BookAfter(SystemOf(systems, game.league), init, k, adv, game)]

(* elo_systems after one iteration of the loop over the rows. *)
SystemsAfter(systems, init, k, adv, game) ==
    [l \in DOMAIN systems \cup {game.league} |->
        IF l = game.league
        THEN BookAfter(SystemOf(systems, l), init, k, adv, game)
        ELSE systems[l]]

(* The dictionary appended to features; game.get('winner') is None. *)
LeagueFeatureRow(systems, init, adv, game) ==
    LET f == FeatureRow(SystemOf(systems, game.league), init, adv, game)
    IN  [game_id |-> f.game_id, date |-> f.date, league |-> game.league,
         home_team |-> f.home_team, away_team |-> f.away_team,
         home_elo |-> f.home_elo, away_elo |-> f.away_elo,
         elo_diff |-> f.elo_diff, p_home |-> f.p_home, p_away |-> f.p_away,
         winner |-> None]

InitLeagues ==
    /\ EloIdle
    /\ IsoIdle
    /\ LiveIdle
    /\ BtIdle
    /\ MathIdle
    /\ PropsIdle
    /\ games_df \in UNION {LeagueFrames(n) : n \in 0..MaxLeagueGames}
    /\ sorted_df = <<>>
    /\ fpc = "sort"
    /\ features = <<>>
    /\ trace = <<>>
    /\ elo_systems = <<>>
    /\ FitIdle

(* build.py:182 and 185-187 *)
SortLeagueValues ==
    /\ fpc = "sort"
    /\ sorted_df' \in sort_values(games_df)
    /\ elo_systems' = <<>>
    /\ features' = <<>>
    /\ fpc' = "loop"
    /\ UNCHANGED <<eloVars, games_df, trace, notLeague>>

(* build.py:189-227, one iteration *)
ProcessLeagueGame ==
    /\ fpc = "loop"
    /\ Len(features) < Len(sorted_df)
    /\ LET game == sorted_df[Len(features) + 1]
       IN  /\ features' = Append(features,
                                 LeagueFeatureRow(elo_systems, initial_elo,
                                                  home_advantage, game))
           /\ elo_systems' = SystemsAfter(elo_systems, initial_elo, k_factor,
                                          home_advantage, game)
    /\ UNCHANGED <<eloVars, games_df, sorted_df, fpc, trace, notLeague>>

(* build.py:265 *)
ReturnLeagueFeatures ==
    /\ fpc = "loop"
    /\ Len(features) = Len(sorted_df)
    /\ fpc' = "done"
    /\ UNCHANGED <<eloVars, games_df, sorted_df, features, trace, leagueVars, notLeague>>

NextLeagues == SortLeagueValues \/ ProcessLeagueGame \/ ReturnLeagueFeatures

SpecLeagues == InitLeagues /\ [][NextLeagues]_vars

(* The rows of league l, in the order of the frame. *)
OfLeague(df, l) == SelectSeq(df, LAMBDA r : r.league = l)

(* The first n rows of a frame. *)
FirstRows(df, n) == SubSeq(df, 1, n)

(* The loop of the league branch run over rows: elo_systems and features
   after it. *)
RECURSIVE LeagueRun(_, _, _, _, _, _)
LeagueRun(systems, feats, init, k, adv, rows) ==
    IF rows = <<>> THEN [elo_systems |-> systems, features |-> feats]
    ELSE LeagueRun(SystemsAfter(systems, init, k, adv, Head(rows)),
                   Append(feats, LeagueFeatureRow(systems, init, adv, Head(rows))),
                   init, k, adv, Tail(rows))

(* What build_elo_features leaves when it processes rows, already in date
   order, alone. *)
Alone(rows) ==
    LeagueRun(<<>>, <<>>, initial_elo, k_factor, home_advantage, rows)

(* The games of league l processed so far are rated as they are when l's
   games run alone, and l's book is the one that run leaves; l's games come
   in an order the sort of l's games alone can give. *)
SameAsAlone(l) ==
    LET mine == OfLeague(FirstRows(sorted_df, Len(features)), l)
        alone == Alone(mine)
    IN  /\ OfLeague(features, l) = alone.features
        /\ SystemOf(elo_systems, l) = SystemOf(alone.elo_systems, l)
        /\ fpc # "sort" =>
              OfLeague(sorted_df, l) \in sort_values(OfLeague(games_df, l))

(* One iteration changes the book of the row's league only. *)
C20_Step ==
    Len(features') = Len(features) + 1 =>
        LET game == sorted_df[Len(features) + 1]
        IN  /\ DOMAIN elo_systems' = DOMAIN elo_systems \cup {game.league}
            /\ \A l \in DOMAIN elo_systems \ {game.league} :
                  elo_systems'[l] = elo_systems[l]
            /\ ratings' = ratings

(* C20: rating books of different leagues share no state: in
   build_elo_features with a league column, processing a game of league L
   changes only ratings of L's book, and the features of every game of
   league L equal those obtained by running L's games alone, for any
   interleaving with other leagues' games and even when the same team name
   occurs in two leagues. *)
C20_LeagueBooksIndependent ==
    /\ [](\A l \in Leagues : SameAsAlone(l))
    /\ [][C20_Step]_vars

(* Two played games of one league with a played game of the other league
   between them, all three between the same two teams; each league's book
   has moved. *)
C20_Witness ==
    /\ fpc = "done"
    /\ Len(sorted_df) = 3
    /\ sorted_df[1].league = sorted_df[3].league
    /\ sorted_df[2].league # sorted_df[1].league
    /\ \A i \in 1..3 : Played(sorted_df[i])
    /\ features[3].home_elo # initial_elo
    /\ \A l \in Leagues :
          /\ l \in DOMAIN elo_systems
          /\ \E t \in DOMAIN elo_systems[l] : elo_systems[l][t] # initial_elo
    /\ elo_systems["NBA"] # elo_systems["NHL"]

----------------------------------------------------------------------------
(* Claims about the lazy registration of participants *)

(* The book after is the book before with each of the given participants
   that was missing recorded at the initial rating, and nothing else
   changed. *)
OnlyRegistered(before, after, teams) ==
    /\ DOMAIN after = DOMAIN before \cup teams
    /\ \A t \in DOMAIN before : after[t] = before[t]
    /\ \A t \in teams \ DOMAIN before : after[t] = initial_elo

(* C21: get_rating(t) for a participant t not yet in the book returns the
   configured initial rating and records exactly the entry t -> initial
   rating, leaving every other entry unchanged; for a participant already
   in the book it returns the stored rating and changes nothing.
   predict_game changes the book only through this lazy registration. *)
C21_LazyRegistration ==
    /\ ret.op = "get_rating" =>
          IF ret.team \in DOMAIN ret.before
          THEN ret.val = ret.before[ret.team] /\ ratings = ret.before
          ELSE /\ ret.val = initial_elo
               /\ OnlyRegistered(ret.before, ratings, {ret.team})
    /\ ret.op = "predict_game" =>
          OnlyRegistered(ret.before, ratings, {ret.home_team, ret.away_team})

(* get_rating of a participant whose stored rating an earlier update has
   moved away from the initial rating. *)
C21_Witness ==
    /\ ret.op = "get_rating"
    /\ ret.team \in DOMAIN ret.before
    /\ ret.before[ret.team] # initial_elo
    /\ ret.val = ret.before[ret.team]
    /\ ratings = ret.before

(* get_rating of a participant that a book holding other entries lacks. *)
C21_FirstAccess ==
    /\ ret.op = "get_rating"
    /\ ret.before # <<>>
    /\ ret.team \notin DOMAIN ret.before

(* predict_game on a book that holds one side at a moved rating and lacks
   the other. *)
C21_PredictRegisters ==
    /\ ret.op = "predict_game"
    /\ \E t \in {ret.home_team, ret.away_team} :
          t \in DOMAIN ret.before /\ ret.before[t] # initial_elo
    /\ \E t \in {ret.home_team, ret.away_team} : t \notin DOMAIN ret.before

(* C22: get_best_edges returns at most top_n edges, every one of them
   qualifying (recommended_side not None, |edge_pct| >= min_edge,
   max(ev_over, ev_under) >= min_ev, sample_size >= min_games), ordered by
   max(ev_over, ev_under) non-increasing, and no qualifying edge left out
   has a strictly larger max(ev_over, ev_under) than an edge that was
   returned. *)
C22_BestEdges ==
    props_ret.op = "get_best_edges" =>
        LET out == props_ret.val
            given == props_ret.edges
            qualifies(e) ==
                /\ e.recommended_side # "None"
                /\ QLeq(props_ret.min_edge, QAbs(e.edge_pct))
                /\ QLeq(props_ret.min_ev, BestEv(e))
                /\ e.sample_size >= props_cfg.min_games
            count(l, e) == Cardinality({i \in 1..Len(l) : l[i] = e})
        IN  /\ Len(out) <= props_ret.top_n
            /\ \A i \in 1..Len(out) :
                  /\ qualifies(out[i])
                  /\ count(out, out[i]) <= count(given, out[i])
            /\ \A i, j \in 1..Len(out) :
                  i < j => QLeq(BestEv(out[j]), BestEv(out[i]))
            /\ \A i \in 1..Len(given) :
                  (qualifies(given[i])
                   /\ count(out, given[i]) < count(given, given[i])) =>
                      \A j \in 1..Len(out) :
                          QLeq(BestEv(given[i]), BestEv(out[j]))

(* Three qualifying edges given with the smallest EV first, two asked for:
   the two returned are reordered and the smallest is left out. *)
C22_Witness ==
    /\ props_ret.op = "get_best_edges"
    /\ props_ret.top_n = 2
    /\ Len(props_ret.edges) = 3
    /\ Len(props_ret.val) = 2
    /\ QLess(BestEv(props_ret.edges[1]), BestEv(props_ret.edges[2]))
    /\ QLess(BestEv(props_ret.edges[2]), BestEv(props_ret.edges[3]))
    /\ props_ret.val = <<props_ret.edges[3], props_ret.edges[2]>>

(* A recommended edge filtered out by each of the other three tests. *)
C22_FilteredBySample ==
    /\ props_ret.op = "get_best_edges"
    /\ \E i \in 1..Len(props_ret.edges) :
          LET e == props_ret.edges[i]
          IN  /\ e.recommended_side # "None"
              /\ e.sample_size < props_cfg.min_games
              /\ QLeq(props_ret.min_edge, QAbs(e.edge_pct))
              /\ QLeq(props_ret.min_ev, BestEv(e))

C22_FilteredByEv ==
    /\ props_ret.op = "get_best_edges"
    /\ \E i \in 1..Len(props_ret.edges) :
          LET e == props_ret.edges[i]
          IN  /\ e.recommended_side # "None"
              /\ ~QLeq(props_ret.min_ev, BestEv(e))

C22_FilteredByEdge ==
    /\ props_ret.op = "get_best_edges"
    /\ \E i \in 1..Len(props_ret.edges) :
          LET e == props_ret.edges[i]
          IN  /\ e.recommended_side # "None"
              /\ QLeq(props_ret.min_ev, BestEv(e))
              /\ ~QLeq(props_ret.min_edge, QAbs(e.edge_pct))

(* The expected value of the side analyze_prop recommends. *)
RecommendedEv(r) ==
    IF r.recommended_side = "over" THEN r.ev_over ELSE r.ev_under

(* C23: analyze_prop never recommends a side whose expected value is below
   the analyzer's configured ev_threshold. *)
C23_RecommendedEvAtLeastThreshold ==
    (props_ret.op = "analyze_prop" /\ props_ret.val.recommended_side # "None")
        => QLeq(props_cfg.ev_threshold, RecommendedEv(props_ret.val))

(* A side recommended by the default analyzer although its expected value
   is below ev_threshold. *)
C23_Witness ==
    /\ props_ret.op = "analyze_prop"
    /\ props_cfg.ev_threshold = <<3, 100>>
    /\ props_cfg.min_games = 5
    /\ props_ret.val.recommended_side = "over"
    /\ QLess(Zero, props_ret.val.ev_over)
    /\ QLess(props_ret.val.ev_over, props_cfg.ev_threshold)

(* What the code does ensure: the recommended side has a positive expected
   value. *)
C23_RecommendedEvPositive ==
    (props_ret.op = "analyze_prop" /\ props_ret.val.recommended_side # "None")
        => QLess(Zero, RecommendedEv(props_ret.val))

----------------------------------------------------------------------------
(* Claims about the blocks fit leaves *)

(* The means of the bins are non-decreasing: no adjacent pair violates
   monotonicity. *)
MeansNonDecreasing(b) ==
    \A i \in 1..(Len(b) - 1) : QLeq(b[i][3], b[i + 1][3])

(* C24: after fit on any non-empty sample with positive weights (including
   samples that repeat the same predicted probability), the stored blocks
   are ordered and non-overlapping (each block has rangeStart <= rangeEnd
   and each block's rangeEnd is strictly below the next block's
   rangeStart) and their means are non-decreasing; no adjacent pair
   violating monotonicity remains once the merge loop ends. *)
C24_BlocksOrderedDisjointMonotone ==
    (fitted.called /\ fitted.data # <<>>) =>
        /\ bins # <<>>
        /\ \A i \in 1..Len(bins) : bins[i][1] <= bins[i][2]
        /\ \A i \in 1..(Len(bins) - 1) : bins[i][2] < bins[i + 1][1]
        /\ MeansNonDecreasing(bins)

(* A fit on samples that repeat a probability, the outcome 0 listed before
   the outcome 1: two blocks on the same probability remain. *)
C24_Witness ==
    /\ fitted.called
    /\ \E i, j \in 1..Len(fitted.data) :
          /\ i < j
          /\ fitted.data[i].p = fitted.data[j].p
          /\ fitted.data[i].y = 0
          /\ fitted.data[j].y = 1
    /\ \E i \in 1..(Len(bins) - 1) : bins[i][2] = bins[i + 1][1]

(* What does hold: the blocks are ordered, each rangeEnd at most the next
   rangeStart, with non-decreasing means; the ranges are disjoint whenever
   the sample repeats no probability. *)
C24_BlocksOrderedMonotone ==
    (fitted.called /\ fitted.data # <<>>) =>
        /\ bins # <<>>
        /\ \A i \in 1..Len(bins) : bins[i][1] <= bins[i][2]
        /\ \A i \in 1..(Len(bins) - 1) : bins[i][2] <= bins[i + 1][1]
        /\ MeansNonDecreasing(bins)
        /\ (\A i, j \in 1..Len(fitted.data) :
                i # j => fitted.data[i].p # fitted.data[j].p)
            => \A i \in 1..(Len(bins) - 1) : bins[i][2] < bins[i + 1][1]

----------------------------------------------------------------------------
(* Claims about the order of the input rows *)

(* The feature rows of the loop of build_elo_features run over rows that
   are already sorted. *)
RECURSIVE FeaturesOf(_, _, _, _, _)
FeaturesOf(book, init, k, adv, rows) ==
    IF rows = <<>> THEN <<>>
    ELSE <<FeatureRow(book, init, adv, Head(rows))>>
         \o FeaturesOf(BookAfter(book, init, k, adv, Head(rows)), init, k, adv,
                       Tail(rows))

(* Every feature frame build_elo_features can return for some ordering of
   the rows of df. *)
FeatureFrames(df) ==
    {FeaturesOf(<<>>, initial_elo, k_factor, home_advantage, s) :
        s \in UNION {sort_values(o) : o \in AnyOrder(df)}}

(* C25: build_elo_features is deterministic in the set of games: for any
   two orderings of the same input rows, every game gets the same home_elo,
   away_elo, p_home and p_away, including when several games involving a
   common team share the same date. *)
C25_DeterministicInSetOfGames ==
    fpc = "done" =>
        \A other \in FeatureFrames(games_df) :
            \A i, j \in 1..Len(features) :
                features[i].game_id = other[j].game_id =>
                    /\ features[i].home_elo = other[j].home_elo
                    /\ features[i].away_elo = other[j].away_elo
                    /\ features[i].p_home = other[j].p_home
                    /\ features[i].p_away = other[j].p_away

(* Two played games of one date between the same teams, both processed. *)
C25_Witness ==
    /\ fpc = "done"
    /\ Len(sorted_df) = 2
    /\ sorted_df[1].date = sorted_df[2].date
    /\ Played(sorted_df[1])
    /\ features[2].home_elo # initial_elo

(* What does hold: the features are the same for every ordering of a frame
   whose games have pairwise different dates. *)
C25_DeterministicOnDistinctDates ==
    (/\ fpc = "done"
     /\ \A a, b \in 1..Len(games_df) :
            a # b => games_df[a].date # games_df[b].date) =>
        \A other \in FeatureFrames(games_df) : other = features

----------------------------------------------------------------------------
(* Further properties of run_backtest *)

(* One pass of the loop over a row that carries no realized outcome leaves
   the ledger and the bankroll as they were. *)
C26_Step ==
    (bt_n' = bt_n + 1 /\ bt_last'.row.winner = "None") =>
        /\ bets' = bets
        /\ current_bankroll' = current_bankroll

(* C26: run_backtest places a bet only on rows that carry a realized
   outcome: a row whose winner is absent never appends a ledger entry,
   never changes the bankroll and is never counted as a lost bet. *)
C26_NoBetWithoutOutcome == [][C26_Step]_vars

(* A row without a winner, bet on and entered in the ledger as lost. *)
C26_Witness ==
    /\ bt_last.action = "bet"
    /\ bt_last.row.winner = "None"
    /\ Last(bets) = bt_last.bet
    /\ ~Last(bets).won
    /\ Last(bets).profit = -(bt_args.stake_size * MoneyScale)
    /\ current_bankroll = Last(bets).bankroll

(* C27: a row with odds yields a bet if and only if max(home EV, away EV) >
   ev_threshold, and the side chosen always has an EV greater than
   ev_threshold and at least as large as the other side's EV. *)
C27_BetIffBestEvAboveThreshold ==
    Priced =>
        LET home_ev == EvAt(bt_last.row.p_home, bt_last.odds.home_ml)
            away_ev == EvAt(bt_last.row.p_away, bt_last.odds.away_ml)
            thr == Quot(bt_args.ev_threshold, PScale * MoneyScale)
            chosen == IF bt_last.best_side = "home" THEN home_ev ELSE away_ev
            other == IF bt_last.best_side = "home" THEN away_ev ELSE home_ev
        IN  /\ (bt_last.action = "bet") = QLess(thr, QMax(home_ev, away_ev))
            /\ bt_last.action = "bet" =>
                  /\ bt_last.best_side \in {"home", "away"}
                  /\ Last(bets).side = bt_last.best_side
                  /\ QLess(thr, chosen)
                  /\ QLeq(other, chosen)

(* A bet on home on a row whose away EV is above the threshold as well, and
   smaller than the home EV. *)
C27_Witness ==
    /\ bt_last.action = "bet"
    /\ bt_last.away_ev > bt_args.ev_threshold
    /\ bt_last.away_ev < bt_last.home_ev
    /\ Last(bets).side = "home"

(* On a priced row left without a bet neither side's EV is above the
   threshold. *)
C27_NoBetBelowThreshold ==
    bt_last.action = "no_bet" =>
        /\ bt_last.home_ev <= bt_args.ev_threshold
        /\ bt_last.away_ev <= bt_args.ev_threshold

(* The sum of the profits of the first n ledger entries. *)
RECURSIVE ProfitsUpTo(_, _)
ProfitsUpTo(ledger, n) ==
    IF n = 0 THEN 0 ELSE ProfitsUpTo(ledger, n - 1) + ledger[n].profit

(* C28: after any sequence of rows, the bankroll stored in the i-th ledger
   entry equals the sum of the profits of ledger entries 1..i (starting
   from 0), final_bankroll equals total_profit equals the sum of all ledger
   profits, total_bets equals the number of ledger entries, and
   total_staked equals total_bets * stake_size. *)
C28_AccountingConsistent ==
    /\ \A i \in 1..Len(bets) : bets[i].bankroll = ProfitsUpTo(bets, i)
    /\ current_bankroll = ProfitsUpTo(bets, Len(bets))
    /\ bt_ret.returned =>
          /\ bt_ret.final_bankroll = ProfitsUpTo(bets, Len(bets))
          /\ bt_ret.total_profit = bt_ret.final_bankroll
          /\ bt_ret.total_bets = Len(bets)
          /\ bt_ret.total_staked = bt_ret.total_bets * bt_args.stake_size

(* A run returned with two bets, the first won and the second lost. *)
C28_Witness ==
    /\ bt_ret.returned
    /\ Len(bets) = 2
    /\ bets[1].won
    /\ ~bets[2].won
    /\ bt_ret.total_staked = 2 * bt_args.stake_size
    /\ bt_ret.final_bankroll = bets[1].profit + bets[2].profit
    /\ bt_ret.final_bankroll # bets[2].profit

(* A bet at a stake other than 1 in a run that has returned. *)
C28_OtherStake ==
    /\ bt_ret.returned
    /\ bets # <<>>
    /\ bt_args.stake_size # 1

----------------------------------------------------------------------------
(* Claims about the samples of fit *)

(* The calibration maps of two lists of bins agree on every query. *)
SameMap(b1, b2) ==
    \A prob \in QueryProbs : predict(b1, prob) = predict(b2, prob)

(* C29: the calibration map produced by fit depends only on the multiset of
   (probability, outcome, weight) samples: fitting any permutation of the
   same samples gives the same predict(p) for every p, including when
   several samples share the same predicted probability with different
   outcomes. *)
C29_FitIgnoresSampleOrder ==
    fitted.called =>
        \A other \in AnyOrder(fitted.data) : SameMap(fit(other), bins)

(* A fit on two samples of one probability, the outcome 0 listed first:
   listed the other way round they are pooled into one block. *)
C29_Witness ==
    /\ fitted.called
    /\ Len(fitted.data) = 2
    /\ fitted.data[1].p = fitted.data[2].p
    /\ fitted.data[1].y = 0
    /\ fitted.data[2].y = 1
    /\ Len(bins) = 2
    /\ Len(fit(<<fitted.data[2], fitted.data[1]>>)) = 1

(* What does hold: the map does not depend on the order of samples whose
   probabilities are pairwise different. *)
C29_FitIgnoresOrderOfDistinctProbs ==
    (/\ fitted.called
     /\ \A i, j \in 1..Len(fitted.data) :
            i # j => fitted.data[i].p # fitted.data[j].p) =>
        \A other \in AnyOrder(fitted.data) : fit(other) = bins

----------------------------------------------------------------------------
(* IsotonicCalibrator.fit, step by step *)

(* The last two blocks merged, the weight of the earlier one dropped. *)
MergeLastLosingWeight(bl) ==
    LET n == Len(bl)
        b2 == bl[n]
        b1 == bl[n - 1]
    IN  Append(SubSeq(bl, 1, n - 2), <<b1[1], b2[2], b1[3] + b2[3], b2[4]>>)

(* One pass of the body of the while loop: b2 and b1 popped, merged
   appended. *)
MergeLast(bl) ==
    LET n == Len(bl)
        b2 == bl[n]
        b1 == bl[n - 1]
        merged == <<b1[1], b2[2], b1[3] + b2[3], b1[4] + b2[4]>>
    IN  Append(SubSeq(bl, 1, n - 2), merged)

(* The condition of the while loop. *)
MustMerge(bl) ==
    Len(bl) >= 2 /\ Violates(bl[Len(bl) - 1], bl[Len(bl)])

(* A caller holding up to MaxSamples samples is about to call fit. *)
InitFit ==
    /\ EloIdle
    /\ FeatIdle
    /\ LiveIdle
    /\ BtIdle
    /\ MathIdle
    /\ PropsIdle
    /\ LeagueIdle
    /\ \E n \in 0..MaxSamples : samples \in [1..n -> Samples]
    /\ bins = <<>>
    /\ fitted = [called |-> FALSE]
    /\ fit_data = <<>>
    /\ fit_blocks = <<>>
    /\ fit_i = 0
    /\ fit_pc = "call"

(* live_games.py:59-66: the early return on no sample, else the weights
   defaulted, the samples sorted and blocks emptied. *)
FitEnter ==
    /\ fit_pc = "call"
    /\ \E weighted \in BOOLEAN :
          LET data == IF weighted THEN samples ELSE Unweighted(samples)
          IN  /\ fitted' = [called |-> TRUE, data |-> data,
                            had_bins |-> bins # <<>>]
              /\ fit_data' = SortedByProb(data)
    /\ fit_blocks' = <<>>
    /\ fit_i' = 0
    /\ IF samples = <<>>
       THEN bins' = <<>> /\ fit_pc' = "done"
       ELSE bins' = bins /\ fit_pc' = "for"
    /\ UNCHANGED <<samples, notFit>>

(* live_games.py:67-68: the for loop takes the next sample. *)
FitAppend ==
    /\ fit_pc = "for"
    /\ fit_i < Len(fit_data)
    /\ LET x == fit_data[fit_i + 1]
       IN  fit_blocks' = Append(fit_blocks, <<x.p, x.p, x.y * x.w, x.w>>)
    /\ fit_i' = fit_i + 1
    /\ fit_pc' = "while"
    /\ UNCHANGED <<fit_data, isoVars, notFit>>

(* live_games.py:69-78: one pass of the while loop. *)
FitMerge ==
    /\ fit_pc = "while"
    /\ MustMerge(fit_blocks)
    /\ fit_blocks' = MergeLast(fit_blocks)
    /\ UNCHANGED <<fit_data, fit_i, fit_pc, isoVars, notFit>>

(* live_games.py:69: the condition of the while loop is false. *)
FitWhileExit ==
    /\ fit_pc = "while"
    /\ ~MustMerge(fit_blocks)
    /\ fit_pc' = "for"
    /\ UNCHANGED <<fit_data, fit_blocks, fit_i, isoVars, notFit>>

(* live_games.py:80: the bins are stored. *)
FitStore ==
    /\ fit_pc = "for"
    /\ fit_i = Len(fit_data)
    /\ bins' = [i \in 1..Len(fit_blocks) |->
                   <<fit_blocks[i][1], fit_blocks[i][2],
                     Quot(fit_blocks[i][3], fit_blocks[i][4])>>]
    /\ fit_pc' = "done"
    /\ UNCHANGED <<samples, fitted, fit_data, fit_blocks, fit_i, notFit>>

NextFit == FitEnter \/ FitAppend \/ FitMerge \/ FitWhileExit \/ FitStore

SpecFit == InitFit /\ [][NextFit]_vars

(* The sorted data ascend by probability. *)
AscendingByProb ==
    \A i, j \in 1..Len(fit_data) : i < j => fit_data[i].p <= fit_data[j].p

(* The samples first..last of the sorted data. *)
Run(first, last) == SubSeq(fit_data, first, last)

RunWeight(run) == SeqSum([j \in DOMAIN run |-> run[j].w])
RunWeightedSum(run) == SeqSum([j \in DOMAIN run |-> run[j].y * run[j].w])

(* The block is the one of the samples first..last: their range, weighted
   sum and weight. *)
BlockOfRun(b, first, last) ==
    /\ first <= last
    /\ b[1] = fit_data[first].p
    /\ b[2] = fit_data[last].p
    /\ b[3] = RunWeightedSum(Run(first, last))
    /\ b[4] = RunWeight(Run(first, last))

(* The blocks partition the samples taken so far into contiguous runs:
   ends[i] is the last sample of block i. *)
PartitionedBy(ends) ==
    /\ ends[Len(fit_blocks)] = fit_i
    /\ \A i \in 1..Len(fit_blocks) :
          BlockOfRun(fit_blocks[i], IF i = 1 THEN 1 ELSE ends[i - 1] + 1,
                     ends[i])

(* C30: fit conserves the sample mass: at every step of the merge loop and
   at the end, the blocks partition the probability-sorted samples into
   contiguous runs, the blocks' weight totals sum to the total sample
   weight, their weighted sums add up to the sum of outcome*weight, and
   each block's mean is the weighted mean outcome of exactly its own
   samples (hence within [0,1] for binary outcomes). *)
C30_MassConserved ==
    /\ AscendingByProb
    /\ IF fit_blocks = <<>> THEN fit_i = 0
       ELSE \E ends \in [1..Len(fit_blocks) -> 1..fit_i] : PartitionedBy(ends)
    /\ SeqSum([i \in DOMAIN fit_blocks |-> fit_blocks[i][4]])
           = RunWeight(Run(1, fit_i))
    /\ SeqSum([i \in DOMAIN fit_blocks |-> fit_blocks[i][3]])
           = RunWeightedSum(Run(1, fit_i))
    /\ \A i \in 1..Len(fit_blocks) :
          /\ fit_blocks[i][4] > 0
          /\ QLeq(Zero, Quot(fit_blocks[i][3], fit_blocks[i][4]))
          /\ QLeq(Quot(fit_blocks[i][3], fit_blocks[i][4]), One)
    /\ fit_pc = "done" =>
          /\ fit_i = Len(fit_data)
          /\ Len(bins) = Len(fit_blocks)
          /\ \A i \in 1..Len(bins) :
                /\ bins[i][1] = fit_blocks[i][1]
                /\ bins[i][2] = fit_blocks[i][2]
                /\ bins[i][3] = Quot(fit_blocks[i][3], fit_blocks[i][4])
          /\ bins = fit(fitted.data)

(* Inside the while loop after one merge, the merged block of two samples
   still violating monotonicity against the block before it. *)
C30_Witness ==
    /\ fit_pc = "while"
    /\ fit_i = 3
    /\ Len(fit_blocks) = 2
    /\ fit_blocks[2][1] < fit_blocks[2][2]
    /\ MustMerge(fit_blocks)

====
